---- MODULE Spec2Model ----
(***************************************************************************)
(* A model of the resilience layer of google-maps-routes-api-wrapper:      *)
(* the token-bucket RateLimiter, the RetryStrategy, the in-memory cache    *)
(* and the RoutesClient flow that sequences them around a transport call.  *)
(*                                                                         *)
(* Time is counted in ticks of 100 ms (the poll delay of waitForTokens and *)
(* the refill interval of the test configuration are one tick).            *)
(***************************************************************************)
EXTENDS Integers, Sequences, FiniteSets, TLC

VARIABLES
    now,          \* Date.now(), in ticks
    tokens,       \* RateLimiter.tokens
    lastRefill,   \* RateLimiter.lastRefill
    rlConfig,     \* RateLimiter.config
    refillTimer,  \* RateLimiter.refillTimer: NoTimer, or the time its next tick is due
    rlOp,         \* history: the last RateLimiter operation and what it returned
    emptiedAt,    \* history: when an acquire last took the bucket to 0, or -1
    granted,      \* history of SpecGrant: the tokens granted since construction
    retryConfig,  \* RetryStrategy.config
    rs,           \* one RetryStrategy.execute call: its locals and its history
    cacheAdapter, \* RoutesClient.cacheAdapter: whether a cache is configured
    cache,        \* InMemoryCacheAdapter.cache: the entries, in insertion order
    stats,        \* InMemoryCacheAdapter.stats
    cacheConfig,  \* InMemoryCacheAdapter.config
    timeoutMs,    \* RoutesClient.timeoutMs
    calls,        \* the getRoute / getDistanceMatrix / snapToRoads calls
    admissions,   \* history: how many times a call has asked the limiter
    keyOp,        \* the requests whose cache keys were computed last, and the keys
    cacheOp,      \* history: the last InMemoryCacheAdapter operation and what it returned
    cleanupTimer, \* InMemoryCacheAdapter.cleanupTimer: NoTimer, or the time its next tick is due
    intervals,    \* SpecTimers: the host's interval timers and the handles the timer fields hold
    tally,        \* history of SpecStats: the gets and sets since the last clear
    waiter        \* one RateLimiter.waitForTokens call: its locals and its history

rlVars == <<tokens, lastRefill, rlConfig, refillTimer, rlOp, emptiedAt, granted>>

rsVars == <<retryConfig, rs>>

cacheVars == <<cache, stats, cacheConfig>>

clVars == <<cacheAdapter, cacheVars, timeoutMs, calls, admissions>>

auxVars == <<keyOp, cacheOp, cleanupTimer, intervals, tally, waiter>>

vars == <<now, rlVars, rsVars, clVars, auxVars>>

----------------------------------------------------------------------------
(* Bounds *)

MaxTime == 6
MaxCapacity == 3
MaxRefillRate == 2
MaxInterval == 2
MaxAcquire == 2
MaxRetries == 2
MaxMsgLen == 2
MaxCalls == 2
MaxClientTime == 3
MaxClientRetries == 1
MaxClientCapacity == 1
MaxBurstCapacity == 3
MaxCoord == 2
MaxEntries == 2
MaxCount == 2
MaxCacheTime == 1
MaxWaypoints == 2
MaxWaitStart == 1
MaxWaitTimeout == 2

NoTimer == -1

\* no cache adapter, no configuration of one
NoCacheConfig == [maxEntries |-> 0, enableStats |-> FALSE, defaultTtlMs |-> 0]

Min(a, b) == IF a <= b THEN a ELSE b

----------------------------------------------------------------------------
(* RateLimiter *)

RateLimiterConfigs ==
    [capacity : 1..MaxCapacity, refillRate : 1..MaxRefillRate,
     refillIntervalMs : 1..MaxInterval]

\* Partial<RateLimiterConfig>: one field given
PartialRateLimiterConfigs ==
    {[field |-> "capacity", value |-> c] : c \in 1..MaxCapacity}
    \cup {[field |-> "refillRate", value |-> r] : r \in 1..MaxRefillRate}
    \cup {[field |-> "refillIntervalMs", value |-> i] : i \in 1..MaxInterval}

\* { ...this.config, ...newConfig }
mergeConfig(cfg, partial) == [cfg EXCEPT ![partial.field] = partial.value]

\* refillTokens with the comparison elapsed > refillIntervalMs
refillTokensStrict(tk, last, cfg, t) ==
    LET elapsed == t - last IN
    IF elapsed > cfg.refillIntervalMs
    THEN LET intervalsPassed == elapsed \div cfg.refillIntervalMs
             tokensToAdd == intervalsPassed * cfg.refillRate
         IN  [tokens |-> Min(cfg.capacity, tk + tokensToAdd), lastRefill |-> t]
    ELSE [tokens |-> tk, lastRefill |-> last]

\* refillTokens crediting the intervals passed and leaving the refill clock
refillTokensKeepsClock(tk, last, cfg, t) ==
    LET elapsed == t - last IN
    IF elapsed >= cfg.refillIntervalMs
    THEN LET intervalsPassed == elapsed \div cfg.refillIntervalMs
             tokensToAdd == intervalsPassed * cfg.refillRate
         IN  [tokens |-> Min(cfg.capacity, tk + tokensToAdd), lastRefill |-> last]
    ELSE [tokens |-> tk, lastRefill |-> last]

\* refillTokens advancing the refill clock by the whole intervals credited
refillTokensWholeIntervals(tk, last, cfg, t) ==
    LET elapsed == t - last IN
    IF elapsed >= cfg.refillIntervalMs
    THEN LET intervalsPassed == elapsed \div cfg.refillIntervalMs
             tokensToAdd == intervalsPassed * cfg.refillRate
         IN  [tokens |-> Min(cfg.capacity, tk + tokensToAdd),
              lastRefill |-> last + intervalsPassed * cfg.refillIntervalMs]
    ELSE [tokens |-> tk, lastRefill |-> last]

\* refillTokens(): the bucket after a refill check at time t
refillTokens(tk, last, cfg, t) ==
    LET elapsed == t - last IN
    IF elapsed >= cfg.refillIntervalMs
    THEN LET intervalsPassed == elapsed \div cfg.refillIntervalMs
             tokensToAdd == intervalsPassed * cfg.refillRate
         IN  [tokens |-> Min(cfg.capacity, tk + tokensToAdd), lastRefill |-> t]
    ELSE [tokens |-> tk, lastRefill |-> last]

\* acquire with the comparison tokens > n
acquireStrict(tk, last, cfg, t, n) ==
    LET r == refillTokens(tk, last, cfg, t) IN
    IF r.tokens > n
    THEN [tokens |-> r.tokens - n, lastRefill |-> r.lastRefill, ok |-> TRUE]
    ELSE [tokens |-> r.tokens, lastRefill |-> r.lastRefill, ok |-> FALSE]

\* acquire that grants without consuming
acquireUncounted(tk, last, cfg, t, n) ==
    LET r == refillTokens(tk, last, cfg, t) IN
    IF r.tokens >= n
    THEN [tokens |-> r.tokens, lastRefill |-> r.lastRefill, ok |-> TRUE]
    ELSE [tokens |-> r.tokens, lastRefill |-> r.lastRefill, ok |-> FALSE]

\* acquire(n): refill, then consume n if available
acquire(tk, last, cfg, t, n) ==
    LET r == refillTokens(tk, last, cfg, t) IN
    IF r.tokens >= n
    THEN [tokens |-> r.tokens - n, lastRefill |-> r.lastRefill, ok |-> TRUE]
    ELSE [tokens |-> r.tokens, lastRefill |-> r.lastRefill, ok |-> FALSE]

\* time since the bucket was emptied, as seen by an operation at time now
SinceEmpty == IF emptiedAt >= 0 THEN now - emptiedAt ELSE -1

\* the history record of an operation other than acquire
OpRecord(op) == [op |-> op, n |-> 0, ok |-> TRUE, since |-> -1]

\* the history record of a refill check alone: n is the elapsed time it saw
RefillRecord(op) == [OpRecord(op) EXCEPT !.n = now - lastRefill]

\* a RetryStrategy that is constructed and never used
RSIdle ==
    /\ retryConfig = [maxRetries |-> 0, retryableStatusCodes |-> {},
                      retryOnNetworkError |-> FALSE]
    /\ rs = [pc |-> "none"]

\* new RateLimiter(cfg), at time 0
RLConstructed(cfg) ==
    /\ now = 0
    /\ rlConfig = cfg
    /\ tokens = cfg.capacity
    /\ lastRefill = 0
    /\ refillTimer = cfg.refillIntervalMs
    /\ rlOp = OpRecord("new")
    /\ emptiedAt = -1
    /\ granted = 0

\* no RoutesClient
CLIdle ==
    /\ cacheAdapter = FALSE
    /\ cache = <<>>
    /\ stats = [hitCount |-> 0, missCount |-> 0, expiredCount |-> 0]
    /\ cacheConfig = NoCacheConfig
    /\ timeoutMs = 0
    /\ calls = <<>>
    /\ admissions = 0

\* 30000 ms, the period of the cleanup timer
CleanupIntervalMs == 300

\* no handle in a timer field (undefined)
NoHandle == 0

\* the interval timers of specifications that do not follow them
NoIntervals == [live |-> {}, refill |-> NoHandle, sweep |-> NoHandle, made |-> 0]

\* no get and no set counted, enableStats as the constructor left it
NoTally == [gets |-> 0, sets |-> 0, changed |-> FALSE]

\* no waitForTokens call
NoWaiter == [pc |-> "none"]

\* no key computed, no cache operation made; the cleanup timer of the cache,
\* if there is one, is not due within the time these specifications cover
AuxIdle ==
    /\ keyOp = [done |-> FALSE]
    /\ cacheOp = [op |-> "none"]
    /\ cleanupTimer = CleanupIntervalMs
    /\ intervals = NoIntervals
    /\ tally = NoTally
    /\ waiter = NoWaiter

RLInit ==
    /\ \E cfg \in RateLimiterConfigs : RLConstructed(cfg)
    /\ RSIdle
    /\ CLIdle
    /\ AuxIdle

\* time passes; an interval timer that is due fires before the clock moves on
TickUpTo(limit) ==
    /\ now < limit
    /\ refillTimer = NoTimer \/ now < refillTimer
    /\ now' = now + 1
    /\ rlOp' = OpRecord("tick")
    /\ UNCHANGED <<tokens, lastRefill, rlConfig, refillTimer, emptiedAt, granted, rsVars, clVars, auxVars>>

Tick == TickUpTo(MaxTime)

\* the bucket after an acquire(n) issued now, with the history it leaves
AcquireNow(n) ==
    LET a == acquire(tokens, lastRefill, rlConfig, now, n) IN
    /\ tokens' = a.tokens
    /\ lastRefill' = a.lastRefill
    /\ rlOp' = [op |-> "acquire", n |-> n, ok |-> a.ok, since |-> SinceEmpty]
    /\ emptiedAt' = IF a.ok THEN (IF a.tokens = 0 THEN now ELSE -1) ELSE emptiedAt

Acquire(n) ==
    /\ AcquireNow(n)
    /\ UNCHANGED <<now, rlConfig, refillTimer, granted, rsVars, clVars, auxVars>>

\* getTokenCount(): refill, then read
GetTokenCount ==
    LET r == refillTokens(tokens, lastRefill, rlConfig, now) IN
    /\ tokens' = r.tokens
    /\ lastRefill' = r.lastRefill
    /\ rlOp' = RefillRecord("getTokenCount")
    /\ UNCHANGED <<now, rlConfig, refillTimer, emptiedAt, granted, rsVars, clVars, auxVars>>

\* a reset that leaves the refill clock
ResetTokensOnly ==
    /\ tokens' = rlConfig.capacity
    /\ rlOp' = OpRecord("reset")
    /\ emptiedAt' = -1
    /\ UNCHANGED <<now, lastRefill, rlConfig, refillTimer, granted, rsVars, clVars, auxVars>>

\* reset()
Reset ==
    /\ tokens' = rlConfig.capacity
    /\ lastRefill' = now
    /\ rlOp' = OpRecord("reset")
    /\ emptiedAt' = -1
    /\ UNCHANGED <<now, rlConfig, refillTimer, granted, rsVars, clVars, auxVars>>

\* startRefillTimer(): clear the old interval timer, schedule a new one
startRefillTimer(cfg, t) == t + cfg.refillIntervalMs

\* updateConfig(newConfig)
UpdateConfig(partial) ==
    /\ rlConfig' = mergeConfig(rlConfig, partial)
    /\ rlConfig' # rlConfig
    /\ refillTimer' = startRefillTimer(rlConfig', now)
    /\ rlOp' = OpRecord("updateConfig")
    /\ emptiedAt' = -1
    /\ UNCHANGED <<now, tokens, lastRefill, granted, rsVars, clVars, auxVars>>

\* the setInterval callback: refillTokens(), then wait another interval
TimerRefill ==
    /\ refillTimer # NoTimer
    /\ now >= refillTimer
    /\ LET r == refillTokens(tokens, lastRefill, rlConfig, now) IN
        /\ tokens' = r.tokens
        /\ lastRefill' = r.lastRefill
    /\ refillTimer' = now + rlConfig.refillIntervalMs
    /\ rlOp' = OpRecord("timer")
    /\ UNCHANGED <<now, rlConfig, emptiedAt, granted, rsVars, clVars, auxVars>>

\* destroy()
Destroy ==
    /\ refillTimer # NoTimer
    /\ refillTimer' = NoTimer
    /\ rlOp' = OpRecord("destroy")
    /\ UNCHANGED <<now, tokens, lastRefill, rlConfig, emptiedAt, granted, rsVars, clVars, auxVars>>

RLNext ==
    \/ Tick
    \/ \E n \in 1..MaxAcquire : Acquire(n)
    \/ GetTokenCount
    \/ Reset
    \/ \E partial \in PartialRateLimiterConfigs : UpdateConfig(partial)
    \/ TimerRefill
    \/ Destroy

SpecRL == RLInit /\ [][RLNext]_vars

----------------------------------------------------------------------------
(* RateLimiter.waitForTokens.  The code from the call, or from the end of a
   delay, to the next delay or to the return runs without a timer or another
   caller in between: it is one action. *)

\* the delay between two polls: 100 ms
PollDelay == 1

\* a loop test that lets the deadline itself pass
waitLoopTestLate(startTime, timeout, t) == t - startTime <= timeout

\* Date.now() - startTime < timeoutMs
waitLoopTest(startTime, timeout, t) == t - startTime < timeout

\* one turn of the loop of waitForTokens: the test, then acquire(n), then the
\* return or the delay
LoopTurn(w) ==
    IF waitLoopTest(w.startTime, w.timeoutMs, now)
    THEN LET a == acquire(tokens, lastRefill, rlConfig, now, w.n) IN
         /\ tokens' = a.tokens
         /\ lastRefill' = a.lastRefill
         /\ waiter' = IF a.ok
                       THEN [w EXCEPT !.pc = "done", !.polls = @ + 1, !.wake = 0,
                                      !.result = "true"]
                       ELSE [w EXCEPT !.pc = "delay", !.polls = @ + 1,
                                      !.wake = now + PollDelay]
    ELSE /\ waiter' = [w EXCEPT !.pc = "done", !.wake = 0, !.result = "false"]
         /\ UNCHANGED <<tokens, lastRefill>>

\* waitForTokens(n, timeoutMs) is called
WaitForTokens(n, timeout) ==
    /\ waiter.pc = "none"
    /\ now <= MaxWaitStart
    /\ LoopTurn([pc |-> "new", n |-> n, timeoutMs |-> timeout, startTime |-> now,
                 wake |-> 0, polls |-> 0, result |-> "none"])
    /\ UNCHANGED <<now, rlConfig, refillTimer, rlOp, emptiedAt, granted, rsVars, clVars, keyOp,
                   cacheOp, cleanupTimer, intervals, tally>>

\* the delay is over: the next turn of the loop
WaitPoll ==
    /\ waiter.pc = "delay"
    /\ now >= waiter.wake
    /\ LoopTurn(waiter)
    /\ UNCHANGED <<now, rlConfig, refillTimer, rlOp, emptiedAt, granted, rsVars, clVars, keyOp,
                   cacheOp, cleanupTimer, intervals, tally>>

\* time passes, as far as the latest call and its timeout need
WaitTick == TickUpTo(MaxWaitStart + MaxWaitTimeout + 1)

\* another caller's acquire(n)
OtherAcquire == \E n \in 1..MaxAcquire : Acquire(n)

WaitNext ==
    \/ \E n \in 1..MaxAcquire, timeout \in 0..MaxWaitTimeout : WaitForTokens(n, timeout)
    \/ WaitPoll
    \/ OtherAcquire
    \/ TimerRefill
    \/ WaitTick

SpecWait == RLInit /\ [][WaitNext]_vars

\* time passes and the timers that are due fire
SpecWaitFair ==
    SpecWait /\ WF_vars(WaitTick) /\ WF_vars(TimerRefill) /\ WF_vars(WaitPoll)

----------------------------------------------------------------------------
(* A RateLimiter that is never reset nor reconfigured: acquire (by any
   caller, the loop of waitForTokens included, which takes tokens through
   acquire only), getTokenCount, the refill timer, and destroy, after which
   every refill is a lazy one *)

\* acquire(n), the tokens it grants counted
GrantAcquire(n) ==
    /\ AcquireNow(n)
    /\ granted' = IF rlOp'.ok THEN granted + n ELSE granted
    /\ UNCHANGED <<now, rlConfig, refillTimer, rsVars, clVars, auxVars>>

GrantNext ==
    \/ \E n \in 1..MaxAcquire : GrantAcquire(n)
    \/ GetTokenCount
    \/ TimerRefill
    \/ Destroy
    \/ Tick

SpecGrant == RLInit /\ [][GrantNext]_vars

----------------------------------------------------------------------------
(* Errors.  A message is the sequence of its words that some matcher of the
   source looks at ("other" stands for any other text); status is the error
   object's status property, NoStatus when it has none. *)

NoStatus == -1

Words == {"status", "Status", "HTTP", "network", "timeout", "503", "400", "other"}

Messages == UNION {[1..k -> Words] : k \in 0..MaxMsgLen}

Statuses == {NoStatus, 0, 400, 503}

Errors == [message : Messages, status : Statuses]

\* String.prototype.toLowerCase on a word
toLowerCase(w) ==
    CASE w = "Status" -> "status"
      [] w = "HTTP" -> "http"
      [] w = "ECONNRESET" -> "econnreset"
      [] w = "ENOTFOUND" -> "enotfound"
      [] w = "ECONNREFUSED" -> "econnrefused"
      [] OTHER -> w

\* message.includes(word), case-sensitive
includes(message, w) == \E i \in 1..Len(message) : message[i] = w

networkErrorMessages ==
    {"network", "timeout", "connection", "fetch", "ECONNRESET", "ENOTFOUND", "ECONNREFUSED"}

\* isNetworkError(error): a keyword occurs in the message, whatever the case
isNetworkError(error) ==
    \E msg \in networkErrorMessages :
        \E i \in 1..Len(error.message) :
            toLowerCase(error.message[i]) = toLowerCase(msg)

\* isHttpError(error)
isHttpError(error) ==
    \/ includes(error.message, "status")
    \/ includes(error.message, "HTTP")
    \/ error.status # NoStatus

\* a word of three digits, as a number (0: the word is not one)
parseInt(w) == CASE w = "503" -> 503 [] w = "400" -> 400 [] OTHER -> 0

\* message.match(/status[:\s]*(\d{3})/i): the places where it matches
statusMatch(message) ==
    {i \in 1..(Len(message) - 1) :
        toLowerCase(message[i]) = "status" /\ parseInt(message[i + 1]) # 0}

\* extractStatusCode(error): the message's first match, else a truthy status
extractStatusCode(error) ==
    IF statusMatch(error.message) # {}
    THEN LET i == CHOOSE j \in statusMatch(error.message) :
                      \A k \in statusMatch(error.message) : j <= k
         IN  parseInt(error.message[i + 1])
    ELSE IF error.status # NoStatus /\ error.status # 0 THEN error.status ELSE 0

----------------------------------------------------------------------------
(* RetryStrategy *)

DefaultRetryableStatusCodes == {429, 500, 502, 503, 504}

RetryConfigs ==
    [maxRetries : 0..MaxRetries,
     retryableStatusCodes : {DefaultRetryableStatusCodes, {400}},
     retryOnNetworkError : BOOLEAN]

\* shouldRetry with the status check applied to every HTTP error
shouldRetryAnyHttp(cfg, error, attempt) ==
    IF attempt > cfg.maxRetries THEN FALSE
    ELSE IF cfg.retryOnNetworkError /\ isNetworkError(error) THEN TRUE
    ELSE isHttpError(error)

\* shouldRetry(error, attempt)
shouldRetry(cfg, error, attempt) ==
    IF attempt > cfg.maxRetries THEN FALSE
    ELSE IF cfg.retryOnNetworkError /\ isNetworkError(error) THEN TRUE
    ELSE IF isHttpError(error)
         THEN extractStatusCode(error) \in cfg.retryableStatusCodes
         ELSE FALSE

\* the catch block giving up one attempt early
executeCatchOffByOne(cfg, error, attempt) ==
    LET next == attempt + 1 IN
    IF ~shouldRetry(cfg, error, next) \/ next >= cfg.maxRetries
    THEN [attempt |-> next, rethrow |-> TRUE, value |-> error]
    ELSE [attempt |-> next, rethrow |-> FALSE, value |-> error]

\* the catch block throwing a new error built from the caught one's content
executeCatchWraps(cfg, error, attempt) ==
    LET next == attempt + 1 IN
    IF ~shouldRetry(cfg, error, next) \/ next > cfg.maxRetries
    THEN [attempt |-> next, rethrow |-> TRUE, value |-> [error EXCEPT !.id = 0]]
    ELSE [attempt |-> next, rethrow |-> FALSE, value |-> error]

\* the catch block of execute, entered with the attempt counter at `attempt`
\* and the error value caught: the new counter, whether the catch block throws
\* (rather than schedules a retry), and the value it throws
executeCatch(cfg, error, attempt) ==
    LET next == attempt + 1 IN
    IF ~shouldRetry(cfg, error, next)
    THEN [attempt |-> next, rethrow |-> TRUE, value |-> error]
    ELSE IF next > cfg.maxRetries
    THEN [attempt |-> next, rethrow |-> TRUE, value |-> error]
    ELSE [attempt |-> next, rethrow |-> FALSE, value |-> error]

\* the classification of shouldRetry while retries remain
Retryable(cfg, error) ==
    \/ cfg.retryOnNetworkError /\ isNetworkError(error)
    \/ isHttpError(error) /\ extractStatusCode(error) \in cfg.retryableStatusCodes

NoError == [message |-> <<>>, status |-> NoStatus, id |-> 0]

\* the error value thrown by invocation id of the operation
Thrown(error, id) == [message |-> error.message, status |-> error.status, id |-> id]

\* the limiter of the test suite: capacity 3, one token per 100 ms
TestRateLimiterConfig == [capacity |-> 3, refillRate |-> 1, refillIntervalMs |-> 1]

RSInit ==
    /\ RLConstructed(TestRateLimiterConfig)
    /\ CLIdle
    /\ AuxIdle
    /\ retryConfig \in RetryConfigs
    /\ rs = [pc |-> "idle", attempt |-> 0, invocations |-> 0, inFlight |-> 0,
             sleeps |-> 0, failures |-> 0, allRetryable |-> TRUE,
             lastError |-> 0, caught |-> NoError, thrown |-> NoError]

\* the loop test of execute, then fn is called (lastError is undefined before
\* the first failure)
executeLoop(r, cfg) ==
    IF r.attempt <= cfg.maxRetries
    THEN [r EXCEPT !.pc = "calling", !.invocations = @ + 1, !.inFlight = @ + 1,
                   !.caught = NoError]
    ELSE [r EXCEPT !.pc = "thrown", !.thrown = [NoError EXCEPT !.id = r.lastError]]

\* execute(fn): the loop is entered and fn is called for the first time
Execute ==
    /\ rs.pc = "idle"
    /\ rs' = executeLoop(rs, retryConfig)
    /\ UNCHANGED <<now, rlVars, retryConfig, clVars, auxVars>>

\* fn() resolves: execute returns its value
FnResolves ==
    /\ rs.pc = "calling"
    /\ rs' = [rs EXCEPT !.pc = "returned", !.inFlight = @ - 1]
    /\ UNCHANGED <<now, rlVars, retryConfig, clVars, auxVars>>

\* fn() rejects with error: the catch block, up to the throw or the delay
FnRejects(error) ==
    /\ rs.pc = "calling"
    /\ LET e == Thrown(error, rs.invocations)
           c == executeCatch(retryConfig, e, rs.attempt)
       IN  rs' = [rs EXCEPT !.pc = IF c.rethrow THEN "thrown" ELSE "sleeping",
                            !.attempt = c.attempt,
                            !.inFlight = @ - 1,
                            !.sleeps = IF c.rethrow THEN @ ELSE @ + 1,
                            !.failures = @ + 1,
                            !.allRetryable = @ /\ Retryable(retryConfig, error),
                            !.lastError = e.id,
                            !.caught = e,
                            !.thrown = IF c.rethrow THEN c.value ELSE NoError]
    /\ UNCHANGED <<now, rlVars, retryConfig, clVars, auxVars>>

\* the backoff delay is over: the loop test, then fn is called again
DelayDone ==
    /\ rs.pc = "sleeping"
    /\ rs' = executeLoop(rs, retryConfig)
    /\ UNCHANGED <<now, rlVars, retryConfig, clVars, auxVars>>

RSNext ==
    \/ Execute
    \/ FnResolves
    \/ \E error \in Errors : FnRejects(error)
    \/ DelayDone

SpecRetry == RSInit /\ [][RSNext]_vars

----------------------------------------------------------------------------
(* RetryStrategy: the backoff delays of execute, in milliseconds. factor is
   the fraction num/den and Math.random() is random/RandomSteps, so that the
   products of calculateDelay are exact fractions and Math.floor is \div *)

MaxDelayRetries == 3
RandomSteps == 4

BaseMsValues == {1, 3, 100}
Factors == {[num |-> 1, den |-> 1], [num |-> 3, den |-> 2], [num |-> 2, den |-> 1]}
\* maxDelayMs: 0 is the option left out
MaxDelayMsValues == {0, 2, 150}

DelayConfigs ==
    [baseMs : BaseMsValues, factor : Factors, maxDelayMs : MaxDelayMsValues,
     maxRetries : {MaxDelayRetries},
     retryableStatusCodes : {DefaultRetryableStatusCodes},
     retryOnNetworkError : {TRUE}]

\* baseMs * Math.pow(factor, attempt - 1) as the fraction num/den
backoff(cfg, attempt) ==
    [num |-> cfg.baseMs * cfg.factor.num ^ (attempt - 1),
     den |-> cfg.factor.den ^ (attempt - 1)]

\* calculateDelay(attempt) with Math.random() = random/RandomSteps:
\* finalDelay = delay + random/RandomSteps * 0.1 * delay
calculateDelayMs(cfg, attempt, random) ==
    LET delay == backoff(cfg, attempt)
        finalNum == delay.num * (10 * RandomSteps + random)
        finalDen == delay.den * 10 * RandomSteps
    IN  IF cfg.maxDelayMs # 0 /\ finalNum > cfg.maxDelayMs * finalDen
        THEN cfg.maxDelayMs
        ELSE finalNum \div finalDen

\* new Error('status: 503')
Status503 == [message |-> <<"status", "503">>, status |-> NoStatus]

DelayInit ==
    /\ RLConstructed(TestRateLimiterConfig)
    /\ CLIdle
    /\ AuxIdle
    /\ retryConfig \in DelayConfigs
    /\ rs = [pc |-> "idle", attempt |-> 0, invocations |-> 0, delay |-> 0,
             random |-> 0, waited |-> 0]

\* execute(fn): the loop is entered and fn is called for the first time
DelayExecute ==
    /\ rs.pc = "idle"
    /\ rs' = [rs EXCEPT !.pc = "calling", !.invocations = @ + 1]
    /\ UNCHANGED <<now, rlVars, retryConfig, clVars, auxVars>>

\* fn() resolves: execute returns its value
DelayFnResolves ==
    /\ rs.pc = "calling"
    /\ rs' = [rs EXCEPT !.pc = "returned"]
    /\ UNCHANGED <<now, rlVars, retryConfig, clVars, auxVars>>

\* fn() rejects with a retryable error: the catch block up to the throw, or up
\* to this.delay(calculateDelay(attempt)) with random the draw of Math.random
DelayFnRejects(random) ==
    /\ rs.pc = "calling"
    /\ LET c == executeCatch(retryConfig, Thrown(Status503, rs.invocations), rs.attempt)
           d == calculateDelayMs(retryConfig, c.attempt, random)
       IN  rs' = IF c.rethrow
                 THEN [rs EXCEPT !.pc = "thrown", !.attempt = c.attempt]
                 ELSE [rs EXCEPT !.pc = "sleeping", !.attempt = c.attempt,
                                 !.delay = d, !.random = random,
                                 !.waited = @ + d]
    /\ UNCHANGED <<now, rlVars, retryConfig, clVars, auxVars>>

\* the timer of this.delay fires: the loop test, then fn is called again
DelayOver ==
    /\ rs.pc = "sleeping"
    /\ rs' = [rs EXCEPT !.pc = "calling", !.invocations = @ + 1]
    /\ UNCHANGED <<now, rlVars, retryConfig, clVars, auxVars>>

DelayNext ==
    \/ DelayExecute
    \/ DelayFnResolves
    \/ \E random \in 0..(RandomSteps - 1) : DelayFnRejects(random)
    \/ DelayOver

SpecDelay == DelayInit /\ [][DelayNext]_vars

----------------------------------------------------------------------------
(* InMemoryCacheAdapter: the Map as the sequence of its entries in insertion
   order, each entry with its key *)

\* the absent value (null)
Null == [op |-> "null", by |-> 0]

\* Map.get(key): where the entry is
cacheFind(entries, key) == {i \in 1..Len(entries) : entries[i].key = key}

\* Map.delete(key)
cacheDelete(entries, key) ==
    IF cacheFind(entries, key) = {} THEN entries
    ELSE LET i == CHOOSE j \in cacheFind(entries, key) : TRUE IN
         [j \in 1..(Len(entries) - 1) |-> IF j < i THEN entries[j] ELSE entries[j + 1]]

\* get with an entry expiring as soon as now reaches expiresAt
cacheGetEarly(entries, st, cfg, key, t) ==
    IF cacheFind(entries, key) = {}
    THEN [cache |-> entries, value |-> Null,
          stats |-> IF cfg.enableStats THEN [st EXCEPT !.missCount = @ + 1] ELSE st]
    ELSE LET entry == entries[CHOOSE j \in cacheFind(entries, key) : TRUE] IN
         IF t >= entry.expiresAt
         THEN [cache |-> cacheDelete(entries, key), value |-> Null,
               stats |-> IF cfg.enableStats
                         THEN [st EXCEPT !.expiredCount = @ + 1, !.missCount = @ + 1]
                         ELSE st]
         ELSE [cache |-> entries, value |-> entry.value,
               stats |-> IF cfg.enableStats THEN [st EXCEPT !.hitCount = @ + 1] ELSE st]

\* get that counts an expired entry as a miss only
cacheGetUncounted(entries, st, cfg, key, t) ==
    IF cacheFind(entries, key) = {}
    THEN [cache |-> entries, value |-> Null,
          stats |-> IF cfg.enableStats THEN [st EXCEPT !.missCount = @ + 1] ELSE st]
    ELSE LET entry == entries[CHOOSE j \in cacheFind(entries, key) : TRUE] IN
         IF t > entry.expiresAt
         THEN [cache |-> cacheDelete(entries, key), value |-> Null,
               stats |-> IF cfg.enableStats THEN [st EXCEPT !.missCount = @ + 1] ELSE st]
         ELSE [cache |-> entries, value |-> entry.value,
               stats |-> IF cfg.enableStats THEN [st EXCEPT !.hitCount = @ + 1] ELSE st]

\* get that counts an expired entry as expired but not as a miss
cacheGetExpiredNotMiss(entries, st, cfg, key, t) ==
    IF cacheFind(entries, key) = {}
    THEN [cache |-> entries, value |-> Null,
          stats |-> IF cfg.enableStats THEN [st EXCEPT !.missCount = @ + 1] ELSE st]
    ELSE LET entry == entries[CHOOSE j \in cacheFind(entries, key) : TRUE] IN
         IF t > entry.expiresAt
         THEN [cache |-> cacheDelete(entries, key), value |-> Null,
               stats |-> IF cfg.enableStats THEN [st EXCEPT !.expiredCount = @ + 1] ELSE st]
         ELSE [cache |-> entries, value |-> entry.value,
               stats |-> IF cfg.enableStats THEN [st EXCEPT !.hitCount = @ + 1] ELSE st]

\* get(key) at time t: the store and the counters it leaves, the value it returns
cacheGet(entries, st, cfg, key, t) ==
    IF cacheFind(entries, key) = {}
    THEN [cache |-> entries, value |-> Null,
          stats |-> IF cfg.enableStats THEN [st EXCEPT !.missCount = @ + 1] ELSE st]
    ELSE LET entry == entries[CHOOSE j \in cacheFind(entries, key) : TRUE] IN
         IF t > entry.expiresAt
         THEN [cache |-> cacheDelete(entries, key), value |-> Null,
               stats |-> IF cfg.enableStats
                         THEN [st EXCEPT !.expiredCount = @ + 1, !.missCount = @ + 1]
                         ELSE st]
         ELSE [cache |-> entries, value |-> entry.value,
               stats |-> IF cfg.enableStats THEN [st EXCEPT !.hitCount = @ + 1] ELSE st]

\* evictOldestEntry() at time t: the first entry, in insertion order, with the
\* smallest createdAt below t is deleted
evictOldestEntry(entries, t) ==
    LET older == {i \in 1..Len(entries) : entries[i].createdAt < t} IN
    IF older = {} THEN entries
    ELSE LET oldest == CHOOSE i \in older :
                 \A j \in older :
                     \/ entries[i].createdAt < entries[j].createdAt
                     \/ entries[i].createdAt = entries[j].createdAt /\ i <= j
         IN  cacheDelete(entries, entries[oldest].key)

\* set that keeps the entry a key already has
cacheSetIfAbsent(entries, cfg, key, value, ttlMs, t) ==
    IF cacheFind(entries, key) # {} THEN entries
    ELSE Append(entries, [key |-> key, value |-> value, expiresAt |-> t + ttlMs,
                          createdAt |-> t])

\* set(key, value, ttlMs) at time t
cacheSet(entries, cfg, key, value, ttlMs, t) ==
    LET kept == IF cfg.maxEntries # 0 /\ Len(entries) >= cfg.maxEntries
                THEN evictOldestEntry(entries, t)
                ELSE entries
        entry == [key |-> key, value |-> value, expiresAt |-> t + ttlMs, createdAt |-> t]
    IN  IF cacheFind(kept, key) = {} THEN Append(kept, entry)
        ELSE [kept EXCEPT ![CHOOSE j \in cacheFind(kept, key) : TRUE] = entry]

\* DEFAULT_CACHE_CONFIG.maxEntries
DefaultMaxEntries == 1000

\* DEFAULT_CACHE_CONFIG.defaultTtlMs: 300000 ms
DefaultCacheTtlMs == 3000

CacheConfigs ==
    {[maxEntries |-> DefaultMaxEntries, enableStats |-> TRUE,
      defaultTtlMs |-> DefaultCacheTtlMs],
     [maxEntries |-> 1, enableStats |-> TRUE, defaultTtlMs |-> 1]}

\* has that counts a miss when it finds nothing
cacheHasCounted(entries, st, cfg, key, t) ==
    IF cacheFind(entries, key) = {}
    THEN [cache |-> entries, found |-> FALSE,
          stats |-> IF cfg.enableStats THEN [st EXCEPT !.missCount = @ + 1] ELSE st]
    ELSE LET entry == entries[CHOOSE j \in cacheFind(entries, key) : TRUE] IN
         IF t > entry.expiresAt
         THEN [cache |-> cacheDelete(entries, key), found |-> FALSE,
               stats |-> IF cfg.enableStats THEN [st EXCEPT !.expiredCount = @ + 1] ELSE st]
         ELSE [cache |-> entries, stats |-> st, found |-> TRUE]

\* has(key) at time t: the store and the counters it leaves, what it returns
cacheHas(entries, st, cfg, key, t) ==
    IF cacheFind(entries, key) = {}
    THEN [cache |-> entries, stats |-> st, found |-> FALSE]
    ELSE LET entry == entries[CHOOSE j \in cacheFind(entries, key) : TRUE] IN
         IF t > entry.expiresAt
         THEN [cache |-> cacheDelete(entries, key), found |-> FALSE,
               stats |-> IF cfg.enableStats THEN [st EXCEPT !.expiredCount = @ + 1] ELSE st]
         ELSE [cache |-> entries, stats |-> st, found |-> TRUE]

\* the entries cleanupExpiredEntries() deletes at time t
expiredKeys(entries, t) == {i \in 1..Len(entries) : t > entries[i].expiresAt}

\* a sweep that counts itself, not the entries it deletes
cleanupCountsSweeps(entries, st, cfg, t) ==
    [cache |-> SelectSeq(entries, LAMBDA entry : ~(t > entry.expiresAt)),
     stats |-> IF cfg.enableStats /\ expiredKeys(entries, t) # {}
               THEN [st EXCEPT !.expiredCount = @ + 1]
               ELSE st]

\* cleanupExpiredEntries() at time t
cleanupExpiredEntries(entries, st, cfg, t) ==
    [cache |-> SelectSeq(entries, LAMBDA entry : ~(t > entry.expiresAt)),
     stats |-> IF cfg.enableStats
               THEN [st EXCEPT !.expiredCount = @ + Cardinality(expiredKeys(entries, t))]
               ELSE st]

\* no ttlMs argument
NoTtl == -1

\* the configurations of the adapter
AdapterConfigs ==
    [maxEntries : 1..MaxEntries, enableStats : BOOLEAN, defaultTtlMs : {DefaultCacheTtlMs}]

\* the keys and the values of the adapter's callers
CacheKeys == {<<"key", "1">>, <<"key", "2">>}

CacheValues == {[op |-> "value", by |-> i] : i \in 1..2}

\* no RateLimiter
RLNone ==
    /\ now = 0
    /\ rlConfig = [capacity |-> 0, refillRate |-> 0, refillIntervalMs |-> 0]
    /\ tokens = 0
    /\ lastRefill = 0
    /\ refillTimer = NoTimer
    /\ rlOp = OpRecord("none")
    /\ emptiedAt = -1
    /\ granted = 0

\* an operation of the adapter that returns nothing
CacheOpRecord(op) == [op |-> op, key |-> <<>>, value |-> Null, found |-> FALSE]

\* new InMemoryCacheAdapter(config)
CacheInit ==
    /\ RLNone
    /\ RSIdle
    /\ cacheAdapter = TRUE
    /\ cache = <<>>
    /\ stats = [hitCount |-> 0, missCount |-> 0, expiredCount |-> 0]
    /\ cacheConfig \in AdapterConfigs
    /\ cleanupTimer = CleanupIntervalMs
    /\ intervals = NoIntervals
    /\ tally = NoTally
    /\ timeoutMs = 0
    /\ calls = <<>>
    /\ admissions = 0
    /\ keyOp = [done |-> FALSE]
    /\ cacheOp = CacheOpRecord("new")
    /\ waiter = NoWaiter

\* what the adapter's operations leave alone
CacheFrame ==
    UNCHANGED <<now, rlVars, rsVars, cacheAdapter, cacheConfig, timeoutMs, calls,
                admissions, keyOp, cleanupTimer, intervals, tally, waiter>>

\* get(key)
Get(key) ==
    /\ stats.hitCount < MaxCount
    /\ stats.missCount < MaxCount
    /\ stats.expiredCount < MaxCount
    /\ LET got == cacheGet(cache, stats, cacheConfig, key, now) IN
           /\ cache' = got.cache
           /\ stats' = got.stats
           /\ cacheOp' = [op |-> "get", key |-> key, value |-> got.value,
                          found |-> got.value # Null]
    /\ CacheFrame

\* set(key, value, ttlMs)
Set(key, value, ttlMs) ==
    /\ cache' = cacheSet(cache, cacheConfig, key, value,
                         IF ttlMs = NoTtl THEN cacheConfig.defaultTtlMs ELSE ttlMs, now)
    /\ cacheOp' = [op |-> "set", key |-> key, value |-> Null, found |-> FALSE]
    /\ UNCHANGED stats
    /\ CacheFrame

\* has(key)
Has(key) ==
    /\ stats.expiredCount < MaxCount
    /\ LET had == cacheHas(cache, stats, cacheConfig, key, now) IN
           /\ cache' = had.cache
           /\ stats' = had.stats
           /\ cacheOp' = [op |-> "has", key |-> key, value |-> Null, found |-> had.found]
    /\ CacheFrame

\* del(key)
Del(key) ==
    /\ cache' = cacheDelete(cache, key)
    /\ cacheOp' = CacheOpRecord("del")
    /\ UNCHANGED stats
    /\ CacheFrame

\* some counter is above zero
Counting == stats # [hitCount |-> 0, missCount |-> 0, expiredCount |-> 0]

\* a clear that leaves the counters
ClearStoreOnly ==
    /\ cache' = <<>>
    /\ cacheOp' = [CacheOpRecord("clear") EXCEPT !.found = Counting]
    /\ UNCHANGED stats
    /\ CacheFrame

\* clear(); the history says whether a counter was above zero
Clear ==
    /\ cache' = <<>>
    /\ stats' = IF cacheConfig.enableStats
                THEN [hitCount |-> 0, missCount |-> 0, expiredCount |-> 0]
                ELSE stats
    /\ cacheOp' = [CacheOpRecord("clear") EXCEPT !.found = Counting]
    /\ CacheFrame

\* the cleanup timer fires; the history says whether it deleted an entry
CleanupFires ==
    /\ cleanupTimer # NoTimer
    /\ now >= cleanupTimer
    /\ LET swept == cleanupExpiredEntries(cache, stats, cacheConfig, now) IN
           /\ cache' = swept.cache
           /\ stats' = swept.stats
    /\ cleanupTimer' = now + CleanupIntervalMs
    /\ cacheOp' = [CacheOpRecord("cleanup") EXCEPT
                       !.found = expiredKeys(cache, now) # {}]
    /\ UNCHANGED <<now, rlVars, rsVars, cacheAdapter, cacheConfig, timeoutMs, calls,
                   admissions, keyOp, intervals, tally, waiter>>

\* time passes: one tick, or all the time until the cleanup timer is due
CacheTick(toTimer) ==
    /\ IF toTimer THEN cleanupTimer # NoTimer /\ now <= MaxCacheTime
                  ELSE now < MaxCacheTime
    /\ now' = IF toTimer THEN cleanupTimer ELSE now + 1
    /\ cacheOp' = CacheOpRecord("tick")
    /\ UNCHANGED <<rlVars, rsVars, clVars, keyOp, cleanupTimer, intervals, tally, waiter>>

CacheNext ==
    \/ \E key \in CacheKeys : Get(key)
    \/ \E key \in CacheKeys, value \in CacheValues, ttlMs \in {NoTtl, 0, 1} :
           Set(key, value, ttlMs)
    \/ \E key \in CacheKeys : Has(key)
    \/ \E key \in CacheKeys : Del(key)
    \/ Clear
    \/ CleanupFires
    \/ \E toTimer \in BOOLEAN : CacheTick(toTimer)

SpecCache == CacheInit /\ [][CacheNext]_vars

----------------------------------------------------------------------------
(* The counters of an InMemoryCacheAdapter against the calls made on it.
   tally counts the get calls that have returned and the set calls since the
   last clear(), and says whether updateConfig has changed enableStats. *)

\* new InMemoryCacheAdapter({enableStats}), at time 0
StatsInit ==
    /\ RLNone
    /\ RSIdle
    /\ cacheAdapter = TRUE
    /\ cache = <<>>
    /\ stats = [hitCount |-> 0, missCount |-> 0, expiredCount |-> 0]
    /\ \E enableStats \in BOOLEAN :
           cacheConfig = [maxEntries |-> DefaultMaxEntries, enableStats |-> enableStats,
                          defaultTtlMs |-> DefaultCacheTtlMs]
    /\ cleanupTimer = now + CleanupIntervalMs
    /\ intervals = NoIntervals
    /\ tally = NoTally
    /\ timeoutMs = 0
    /\ calls = <<>>
    /\ admissions = 0
    /\ keyOp = [done |-> FALSE]
    /\ cacheOp = CacheOpRecord("new")
    /\ waiter = NoWaiter

\* getStats(); hitRate is the quotient num / den
getStats(entries, st) ==
    LET totalRequests == st.hitCount + st.missCount
        hitRate == IF totalRequests > 0
                   THEN [num |-> st.hitCount, den |-> totalRequests]
                   ELSE [num |-> 0, den |-> 1]
    IN  [size |-> Len(entries), hitCount |-> st.hitCount, missCount |-> st.missCount,
         hitRate |-> hitRate, expiredCount |-> st.expiredCount]

\* getStats() is called
GetStats ==
    /\ cacheOp' = [CacheOpRecord("getStats") EXCEPT !.value = getStats(cache, stats)]
    /\ UNCHANGED <<cache, stats>>
    /\ CacheFrame

\* get(key), counted
StatsGet(key) ==
    /\ tally.gets <= MaxCount
    /\ stats.hitCount < MaxCount
    /\ stats.missCount < MaxCount
    /\ stats.expiredCount < MaxCount
    /\ LET got == cacheGet(cache, stats, cacheConfig, key, now) IN
           /\ cache' = got.cache
           /\ stats' = got.stats
           /\ cacheOp' = [op |-> "get", key |-> key, value |-> got.value,
                          found |-> got.value # Null]
    /\ tally' = [tally EXCEPT !.gets = @ + 1]
    /\ UNCHANGED <<now, rlVars, rsVars, cacheAdapter, cacheConfig, timeoutMs, calls,
                   admissions, keyOp, cleanupTimer, intervals, waiter>>

\* set(key, value, ttlMs), counted
StatsSet(key, value, ttlMs) ==
    /\ tally.sets < MaxCount
    /\ cache' = cacheSet(cache, cacheConfig, key, value,
                         IF ttlMs = NoTtl THEN cacheConfig.defaultTtlMs ELSE ttlMs, now)
    /\ cacheOp' = [op |-> "set", key |-> key, value |-> Null, found |-> FALSE]
    /\ tally' = [tally EXCEPT !.sets = @ + 1]
    /\ UNCHANGED <<now, rlVars, rsVars, cacheAdapter, stats, cacheConfig, timeoutMs, calls,
                   admissions, keyOp, cleanupTimer, intervals, waiter>>

\* clear(): the counts of gets and sets start again
StatsClear ==
    /\ cache' = <<>>
    /\ stats' = IF cacheConfig.enableStats
                THEN [hitCount |-> 0, missCount |-> 0, expiredCount |-> 0]
                ELSE stats
    /\ cacheOp' = [CacheOpRecord("clear") EXCEPT !.found = Counting]
    /\ tally' = [tally EXCEPT !.gets = 0, !.sets = 0]
    /\ UNCHANGED <<now, rlVars, rsVars, cacheAdapter, cacheConfig, timeoutMs, calls,
                   admissions, keyOp, cleanupTimer, intervals, waiter>>

\* updateConfig({enableStats}); the cleanup timer starts again
StatsUpdateConfig(enableStats) ==
    /\ cacheConfig' = [cacheConfig EXCEPT !.enableStats = enableStats]
    /\ cleanupTimer' = now + CleanupIntervalMs
    /\ cacheOp' = CacheOpRecord("updateConfig")
    /\ tally' = [tally EXCEPT !.changed = @ \/ enableStats # cacheConfig.enableStats]
    /\ UNCHANGED <<now, rlVars, rsVars, cacheAdapter, cache, stats, timeoutMs, calls,
                   admissions, keyOp, intervals, waiter>>

StatsNext ==
    \/ \E key \in CacheKeys : StatsGet(key)
    \/ \E key \in CacheKeys : StatsSet(key, [op |-> "value", by |-> 1], 1)
    \/ \E key \in CacheKeys : Has(key)
    \/ StatsClear
    \/ \E enableStats \in BOOLEAN : StatsUpdateConfig(enableStats)
    \/ GetStats
    \/ CleanupFires
    \/ \E toTimer \in BOOLEAN : CacheTick(toTimer)

SpecStats == StatsInit /\ [][StatsNext]_vars

----------------------------------------------------------------------------
(* The interval timers of a RateLimiter and of an InMemoryCacheAdapter.  The
   host keeps every timer that setInterval has made and clearInterval has not
   cleared (live); the timer field of the limiter (refill) and of the adapter
   (sweep) holds the handle of one of them, or undefined.  Handles are
   numbered in the order setInterval makes them. *)

MaxTimers == 5

\* the host's timers whose callback belongs to an owner
LiveOf(table, owner) == {t \in table.live : t.owner = owner}

\* startRefillTimer() / startCleanupTimer() without the clearInterval
startTimerKeepsOld(table, owner) ==
    LET id == table.made + 1 IN
    [table EXCEPT !.live = @ \cup {[owner |-> owner, id |-> id]},
                  ![owner] = id,
                  !.made = id]

\* startRefillTimer() / startCleanupTimer(): if the field holds a timer,
\* clearInterval(it); then the field is given the handle of a new setInterval
startTimer(table, owner) ==
    LET old == table[owner]
        cleared == IF old # NoHandle
                   THEN table.live \ {[owner |-> owner, id |-> old]}
                   ELSE table.live
        id == table.made + 1
    IN  [table EXCEPT !.live = cleared \cup {[owner |-> owner, id |-> id]},
                      ![owner] = id,
                      !.made = id]

\* the timer part of destroy(): if the field holds a timer, clearInterval(it)
\* and the field becomes undefined
stopTimer(table, owner) ==
    LET old == table[owner] IN
    IF old # NoHandle
    THEN [table EXCEPT !.live = @ \ {[owner |-> owner, id |-> old]},
                       ![owner] = NoHandle]
    ELSE table

\* { ...this.config, ...newConfig } of the adapter
PartialCacheConfigs == {[field |-> "enableStats", value |-> b] : b \in BOOLEAN}

\* new RateLimiter(cfg) and new InMemoryCacheAdapter(), at time 0
TimersInit ==
    /\ \E cfg \in RateLimiterConfigs : RLConstructed(cfg)
    /\ RSIdle
    /\ cacheAdapter = TRUE
    /\ cache = <<>>
    /\ stats = [hitCount |-> 0, missCount |-> 0, expiredCount |-> 0]
    /\ cacheConfig = [maxEntries |-> DefaultMaxEntries, enableStats |-> TRUE,
                      defaultTtlMs |-> DefaultCacheTtlMs]
    /\ cleanupTimer = now + CleanupIntervalMs
    /\ intervals = startTimer(startTimer(NoIntervals, "refill"), "sweep")
    /\ tally = NoTally
    /\ timeoutMs = 0
    /\ calls = <<>>
    /\ admissions = 0
    /\ keyOp = [done |-> FALSE]
    /\ cacheOp = CacheOpRecord("new")
    /\ waiter = NoWaiter

\* RateLimiter.updateConfig(newConfig), whether it changes the configuration
\* or not
TimersUpdateConfig(partial) ==
    /\ intervals.made < MaxTimers
    /\ rlConfig' = mergeConfig(rlConfig, partial)
    /\ refillTimer' = startRefillTimer(rlConfig', now)
    /\ intervals' = startTimer(intervals, "refill")
    /\ rlOp' = OpRecord("updateConfig")
    /\ emptiedAt' = -1
    /\ UNCHANGED <<now, tokens, lastRefill, granted, rsVars, clVars, keyOp, cacheOp,
                   cleanupTimer, tally, waiter>>

\* RateLimiter.destroy(), whether a timer is left or not
TimersDestroy ==
    /\ refillTimer' = NoTimer
    /\ intervals' = stopTimer(intervals, "refill")
    /\ rlOp' = OpRecord("destroy")
    /\ UNCHANGED <<now, tokens, lastRefill, rlConfig, emptiedAt, granted, rsVars, clVars,
                   keyOp, cacheOp, cleanupTimer, tally, waiter>>

\* InMemoryCacheAdapter.updateConfig(newConfig)
CacheUpdateConfig(partial) ==
    /\ intervals.made < MaxTimers
    /\ cacheConfig' = [cacheConfig EXCEPT ![partial.field] = partial.value]
    /\ cleanupTimer' = now + CleanupIntervalMs
    /\ intervals' = startTimer(intervals, "sweep")
    /\ cacheOp' = CacheOpRecord("updateConfig")
    /\ UNCHANGED <<now, rlVars, rsVars, cacheAdapter, cache, stats, timeoutMs, calls,
                   admissions, keyOp, tally, waiter>>

\* InMemoryCacheAdapter.destroy()
CacheDestroy ==
    /\ cleanupTimer' = NoTimer
    /\ intervals' = stopTimer(intervals, "sweep")
    /\ cache' = <<>>
    /\ cacheOp' = CacheOpRecord("destroy")
    /\ UNCHANGED <<now, rlVars, rsVars, cacheAdapter, stats, cacheConfig, timeoutMs, calls,
                   admissions, keyOp, tally, waiter>>

TimersNext ==
    \/ Tick
    \/ TimerRefill
    \/ \E partial \in PartialRateLimiterConfigs : TimersUpdateConfig(partial)
    \/ TimersDestroy
    \/ \E partial \in PartialCacheConfigs : CacheUpdateConfig(partial)
    \/ CacheDestroy

SpecTimers == TimersInit /\ [][TimersNext]_vars

----------------------------------------------------------------------------
(* RoutesError *)

RoutesError(message, code, status, meta) ==
    [message |-> message, code |-> code, status |-> status, meta |-> meta]

\* RoutesError.validation(message, field)
validation(message, field) ==
    RoutesError(message, "VALIDATION_ERROR", 400, IF field THEN "field" ELSE "none")

\* fromHttpResponse with one code for all the 5xx statuses
fromHttpResponseCoarse(status, message, body) ==
    LET code == CASE status = 400 -> "INVALID_REQUEST"
                  [] status = 401 -> "UNAUTHORIZED"
                  [] status = 403 -> "FORBIDDEN"
                  [] status = 404 -> "NOT_FOUND"
                  [] status = 429 -> "RATE_LIMITED"
                  [] status \in {500, 502, 503, 504} -> "SERVER_ERROR"
                  [] OTHER -> "HTTP_ERROR"
        errorMessage == IF status \in {401, 403, 429} THEN <<"other">> ELSE message
    IN  RoutesError(errorMessage, code, status, IF body THEN "responseBody" ELSE "none")

\* RoutesError.fromHttpResponse(status, message, body)
fromHttpResponse(status, message, body) ==
    LET code == CASE status = 400 -> "INVALID_REQUEST"
                  [] status = 401 -> "UNAUTHORIZED"
                  [] status = 403 -> "FORBIDDEN"
                  [] status = 404 -> "NOT_FOUND"
                  [] status = 429 -> "RATE_LIMITED"
                  [] status = 500 -> "SERVER_ERROR"
                  [] status \in {502, 503, 504} -> "SERVICE_UNAVAILABLE"
                  [] OTHER -> "HTTP_ERROR"
        errorMessage == IF status \in {401, 403, 429} THEN <<"other">> ELSE message
    IN  RoutesError(errorMessage, code, status, IF body THEN "responseBody" ELSE "none")

\* RoutesError.network(message, originalError)
network(message, originalError) ==
    RoutesError(message, "NETWORK_ERROR", 0, IF originalError THEN "originalError" ELSE "none")

\* RoutesError.timeout(timeoutMs): "Request timed out after <n>ms"
timeout(ms) == RoutesError(<<"other">>, "TIMEOUT_ERROR", 408, "timeoutMs")

----------------------------------------------------------------------------
(* Cache keys.  A string is the sequence of its pieces (a piece: a word, a
   number as printed, or one of the separators "," ":" "|"), so that joining
   is concatenation. *)

\* a Location: a string, a LatLng object or a [lat, lng] array
StringLocation(text) == [kind |-> "string", text |-> text, lat |-> 0, lng |-> 0]
LatLng(lat, lng) == [kind |-> "LatLng", text |-> <<>>, lat |-> lat, lng |-> lng]
LatLngArray(lat, lng) == [kind |-> "array", text |-> <<>>, lat |-> lat, lng |-> lng]

\* String(location), as Array.prototype.join applies it to an element too
String(location) ==
    CASE location.kind = "string" -> location.text
      [] location.kind = "array" -> <<ToString(location.lat), ",", ToString(location.lng)>>
      [] OTHER -> <<"[object Object]">>

\* `${p.lat},${p.lng}`
pathPoint(p) == <<ToString(p.lat), ",", ToString(p.lng)>>

RECURSIVE join(_, _)
\* parts.join(separator), the parts being strings already
join(parts, separator) ==
    IF Len(parts) = 0 THEN <<>>
    ELSE IF Len(parts) = 1 THEN parts[1]
    ELSE parts[1] \o <<separator>> \o join(Tail(parts), separator)

\* value || ''
orEmpty(value) == IF value = "" THEN <<>> ELSE <<value>>

\* flag ? '1' : '0'
flag(b) == IF b THEN <<"1">> ELSE <<"0">>

\* no departure or arrival time given
NoTime == -1

\* time ? String(time) : ''
timePart(t) == IF t = NoTime \/ t = 0 THEN <<>> ELSE <<ToString(t)>>

\* generateCacheKey(operation, options)
generateCacheKey(operation, options) ==
    <<"routes", ":">> \o
    join(<<<<operation>>,
           String(options.origin),
           String(options.destination),
           orEmpty(options.travelMode),
           join([i \in 1..Len(options.waypoints) |-> String(options.waypoints[i])], ","),
           flag(options.avoidHighways),
           flag(options.avoidTolls),
           flag(options.avoidFerries),
           flag(options.optimizeWaypoints)>>, ":")

\* generateDistanceMatrixCacheKey(options)
generateDistanceMatrixCacheKey(options) ==
    <<"routes", ":">> \o
    join(<<<<"distanceMatrix">>,
           join([i \in 1..Len(options.origins) |-> String(options.origins[i])], "|"),
           join([i \in 1..Len(options.destinations) |-> String(options.destinations[i])], "|"),
           orEmpty(options.travelMode),
           orEmpty(options.units),
           timePart(options.departureTime),
           timePart(options.arrivalTime),
           orEmpty(options.trafficModel),
           orEmpty(options.transitMode),
           orEmpty(options.transitRoutingPreference),
           flag(options.avoidHighways),
           flag(options.avoidTolls),
           flag(options.avoidFerries)>>, ":")

\* generateSnapToRoadsCacheKey(options)
generateSnapToRoadsCacheKey(options) ==
    <<"routes", ":">> \o
    join(<<<<"snapToRoads">>,
           join([i \in 1..Len(options.path) |-> pathPoint(options.path[i])], "|"),
           flag(options.interpolate)>>, ":")

\* the key getRoute / getDistanceMatrix / snapToRoads computes for a request
cacheKeyOf(request) ==
    CASE request.operation = "route" -> generateCacheKey("route", request)
      [] request.operation = "distanceMatrix" -> generateDistanceMatrixCacheKey(request)
      [] OTHER -> generateSnapToRoadsCacheKey(request)

\* the coordinates of the requests
Coords == 1..MaxCoord

\* a string "lat,lng"
CoordString(lat, lng) == StringLocation(<<ToString(lat), ",", ToString(lng)>>)

\* the locations of the requests: two addresses, and every point as a string,
\* as a LatLng object and as an array
Locations ==
    {StringLocation(<<"Paris">>), StringLocation(<<"France">>)}
    \cup {CoordString(x, y) : x \in Coords, y \in Coords}
    \cup {LatLng(x, y) : x \in Coords, y \in Coords}
    \cup {LatLngArray(x, y) : x \in Coords, y \in Coords}

\* the waypoints of the requests
Waypoints ==
    {StringLocation(<<"Paris">>), StringLocation(<<"France">>),
     StringLocation(<<"Paris", ",", "France">>)}

WaypointLists == UNION {[1..k -> Waypoints] : k \in 0..MaxWaypoints}

\* the origins and destinations of the distance matrix requests
MatrixLocations ==
    {StringLocation(<<"Paris">>), LatLng(1, 1), LatLng(1, 2), LatLngArray(1, 1)}

MatrixLists == UNION {[1..k -> MatrixLocations] : k \in 1..MaxWaypoints}

\* the paths of the snapToRoads requests: at least two points
Paths ==
    UNION {[1..k -> {LatLng(x, y) : x \in Coords, y \in Coords}] : k \in 2..MaxWaypoints}

\* TravelMode, "" for none given
TravelModes == {"", "DRIVING", "WALKING"}

\* the values a field of a request of this operation takes
FieldValues(operation, field) ==
    CASE field \in {"origin", "destination"} -> Locations
      [] field = "waypoints" -> WaypointLists
      [] field \in {"origins", "destinations"} -> MatrixLists
      [] field = "path" -> Paths
      [] field = "travelMode" -> TravelModes
      [] field = "units" -> {"", "metric", "imperial"}
      [] field \in {"departureTime", "arrivalTime"} -> {NoTime, 0, 5}
      [] field = "trafficModel" -> {"", "best_guess", "pessimistic"}
      [] field = "transitMode" -> {"", "bus", "train"}
      [] field = "transitRoutingPreference" -> {"", "less_walking", "fewer_transfers"}
      [] OTHER -> BOOLEAN

\* GetRouteOptions with only origin, destination and waypoints given
RouteRequest(origin, waypoints) ==
    [operation |-> "route", origin |-> origin,
     destination |-> StringLocation(<<"France">>), travelMode |-> "",
     waypoints |-> waypoints, avoidHighways |-> FALSE, avoidTolls |-> FALSE,
     avoidFerries |-> FALSE, optimizeWaypoints |-> FALSE]

\* DistanceMatrixOptions with only origins and destinations given
DistanceMatrixRequest(origins) ==
    [operation |-> "distanceMatrix", origins |-> origins,
     destinations |-> <<StringLocation(<<"France">>)>>, travelMode |-> "",
     units |-> "", departureTime |-> NoTime, arrivalTime |-> NoTime,
     trafficModel |-> "", transitMode |-> "", transitRoutingPreference |-> "",
     avoidHighways |-> FALSE, avoidTolls |-> FALSE, avoidFerries |-> FALSE]

\* SnapToRoadsOptions with only the path given
SnapToRoadsRequest(path) ==
    [operation |-> "snapToRoads", path |-> path, interpolate |-> FALSE]

BaseRequests ==
    {RouteRequest(origin, waypoints) : origin \in Locations, waypoints \in WaypointLists}
    \cup {DistanceMatrixRequest(origins) : origins \in MatrixLists}
    \cup {SnapToRoadsRequest(path) : path \in Paths}

KeysInit ==
    /\ RLConstructed(TestRateLimiterConfig)
    /\ RSIdle
    /\ CLIdle
    /\ cacheOp = [op |-> "none"]
    /\ cleanupTimer = CleanupIntervalMs
    /\ intervals = NoIntervals
    /\ tally = NoTally
    /\ waiter = NoWaiter
    /\ \E a \in BaseRequests :
           keyOp = [done |-> FALSE, a |-> a, b |-> a, keyA |-> <<>>, keyB |-> <<>>]

\* the keys of two requests are computed
ComputeKeys(a, b) ==
    /\ ~keyOp.done
    /\ keyOp' = [done |-> TRUE, a |-> a, b |-> b,
                 keyA |-> cacheKeyOf(a), keyB |-> cacheKeyOf(b)]
    /\ UNCHANGED <<now, rlVars, rsVars, clVars, cacheOp, cleanupTimer, intervals, tally, waiter>>

\* the keys of a request and of the request with one field given another value
KeysOfVariant(field, value) ==
    /\ field \in DOMAIN keyOp.a \ {"operation"}
    /\ value \in FieldValues(keyOp.a.operation, field)
    /\ ComputeKeys(keyOp.a, [keyOp.a EXCEPT ![field] = value])

\* the keys of a request and of a request of another operation
KeysOfOtherKind(b) ==
    /\ b.operation # keyOp.a.operation
    /\ ComputeKeys(keyOp.a, b)

Fields ==
    {"origin", "destination", "waypoints", "origins", "destinations", "path",
     "travelMode", "units", "departureTime", "arrivalTime", "trafficModel",
     "transitMode", "transitRoutingPreference", "avoidHighways", "avoidTolls",
     "avoidFerries", "optimizeWaypoints", "interpolate"}

KeysNext ==
    \/ \E field \in Fields :
           \E value \in FieldValues(keyOp.a.operation, field) : KeysOfVariant(field, value)
    \/ \E b \in BaseRequests : KeysOfOtherKind(b)

SpecKeys == KeysInit /\ [][KeysNext]_vars

----------------------------------------------------------------------------
(* RoutesClient: getRoute, getDistanceMatrix and snapToRoads.  An await on a
   promise that is already settled yields to other microtasks only: no timer,
   no transport callback and no other call's transport result runs in between,
   so the code from the call to its first transport request is one action, and
   so is the code from a transport result to the next suspension. *)

Ops == {"route", "distanceMatrix", "snapToRoads"}

CallIds == 1..MaxCalls

\* the request of each kind that the calls make
RequestOf(op) ==
    CASE op = "route" -> RouteRequest(StringLocation(<<"Paris">>), <<>>)
      [] op = "distanceMatrix" -> DistanceMatrixRequest(<<StringLocation(<<"Paris">>)>>)
      [] OTHER -> SnapToRoadsRequest(<<LatLng(1, 1), LatLng(1, 2)>>)

\* cacheOptions; ttlMs 0 stands for none given
CacheOptions == [bypassCache : BOOLEAN, forceRefresh : BOOLEAN, ttlMs : {0, 1}]

\* 300000 ms, the TTL used when the caller gives none
DefaultTtlMs == 3000

HttpStatuses == {200, 400, 503}

\* a response body: a result object with status OK, one with an API error
\* status and no error_message, or something that is no object
Bodies == {"OK", "REQUEST_DENIED", "invalid"}

Responses == [status : HttpStatuses, body : Bodies]

\* the messages of the errors a transport throws
TransportFailures == {<<"network">>, <<"timeout">>, <<"other">>}

\* retryConfig of the client: baseMs 100, factor 2, maxDelayMs 30000 (in ticks)
ClientRetryConfigs ==
    [baseMs : {1}, factor : {2}, maxDelayMs : {300},
     maxRetries : 0..MaxClientRetries,
     retryableStatusCodes : {DefaultRetryableStatusCodes},
     retryOnNetworkError : {TRUE}]

ClientRateLimiterConfigs ==
    [capacity : 1..MaxClientCapacity, refillRate : {1}, refillIntervalMs : {2}]

NoRoutesError == RoutesError(<<>>, "", NoStatus, "none")

\* a call that was not made yet has no request
NoRequest == [operation |-> ""]

\* a call: where it is, what was asked (op, request, key, ttlMs, and skip:
\* bypassCache or forceRefresh), its attempt counter
\* and timers (attempt, sentAt, wake), what it has done so far (lookups,
\* acquires, admitted, executes, transports, writes) and how it ended
\* (result, error)
NewCall ==
    [pc |-> "new", op |-> "", request |-> NoRequest, key |-> <<>>, ttlMs |-> 0,
     skip |-> FALSE,
     lookups |-> 0, acquires |-> 0, admitted |-> FALSE,
     executes |-> 0, attempt |-> 0, transports |-> 0, sentAt |-> 0, wake |-> 0,
     writes |-> 0, result |-> Null, error |-> NoRoutesError]

\* the call returns or throws
Returned(call, result, error) ==
    [call EXCEPT !.pc = "done", !.ttlMs = 0, !.sentAt = 0, !.wake = 0,
                 !.result = result, !.error = error]

CLInit ==
    /\ \E cfg \in ClientRateLimiterConfigs : RLConstructed(cfg)
    /\ retryConfig \in ClientRetryConfigs
    /\ rs = [pc |-> "none"]
    /\ cacheAdapter \in BOOLEAN
    /\ cache = <<>>
    /\ stats = [hitCount |-> 0, missCount |-> 0, expiredCount |-> 0]
    /\ cacheConfig \in IF cacheAdapter THEN CacheConfigs ELSE {NoCacheConfig}
    /\ timeoutMs = 1
    /\ calls = [c \in CallIds |-> NewCall]
    /\ admissions = 0
    /\ AuxIdle

\* calculateDelay(attempt), in ticks; the jitter, below a tenth of the delay,
\* stays below a tick
calculateDelay(cfg, attempt) ==
    LET delay == cfg.baseMs * cfg.factor ^ (attempt - 1) IN
    IF cfg.maxDelayMs # 0 /\ delay > cfg.maxDelayMs THEN cfg.maxDelayMs ELSE delay

\* fn(): the request is built and handed to the transport, the timer is set
sendRequestWithTimeout(call) ==
    [call EXCEPT !.pc = "sending", !.transports = @ + 1, !.sentAt = now]

\* an admission that goes on to the transport whatever acquire returned
AdmissionUnchecked(c, call) ==
    LET r == acquire(tokens, lastRefill, rlConfig, now, 1)
        asked == [call EXCEPT !.acquires = @ + 1, !.admitted = r.ok]
    IN  /\ tokens' = r.tokens
        /\ lastRefill' = r.lastRefill
        /\ admissions' = admissions + 1
        /\ calls' = [calls EXCEPT ![c] =
               sendRequestWithTimeout([asked EXCEPT !.executes = @ + 1])]

\* the admission check and what follows it, up to the first transport request
Admission(c, call) ==
    LET r == acquire(tokens, lastRefill, rlConfig, now, 1)
        asked == [call EXCEPT !.acquires = @ + 1, !.admitted = r.ok]
    IN  /\ tokens' = r.tokens
        /\ lastRefill' = r.lastRefill
        /\ admissions' = admissions + 1
        /\ calls' = [calls EXCEPT ![c] =
               IF ~r.ok
               THEN Returned(asked, Null, fromHttpResponse(429, <<"other">>, FALSE))
               ELSE sendRequestWithTimeout([asked EXCEPT !.executes = @ + 1])]

\* new Error('Validation error: <path> - <message>'), which is no RoutesError
ValidationError == RoutesError(<<"Validation error">>, "", NoStatus, "none")

\* a validation that lets the call ask for admission before it throws
ValidationFailsLate(c, call) ==
    LET r == acquire(tokens, lastRefill, rlConfig, now, 1) IN
    /\ tokens' = r.tokens
    /\ lastRefill' = r.lastRefill
    /\ admissions' = admissions + 1
    /\ calls' = [calls EXCEPT ![c] =
           Returned([call EXCEPT !.acquires = @ + 1, !.admitted = r.ok],
                    Null, ValidationError)]
    /\ UNCHANGED <<cache, stats>>

\* validate...Options(opts) throws: the call fails at once
ValidationFails(c, call) ==
    /\ calls' = [calls EXCEPT ![c] = Returned(call, Null, ValidationError)]
    /\ UNCHANGED <<tokens, lastRefill, admissions, cache, stats>>

\* a test that looks the key up under forceRefresh
checksCacheOnRefresh(options) ==
    cacheAdapter /\ ~options.bypassCache

\* the test before the lookup
checksCache(options) ==
    cacheAdapter /\ ~options.bypassCache /\ ~options.forceRefresh

\* getRoute / getDistanceMatrix / snapToRoads (opts, cacheOptions), with opts
\* this request, valid or not
CallFor(c, request, options, valid) ==
    /\ calls[c].pc = "new"
    /\ IF c = 1 THEN TRUE ELSE calls[c - 1].pc # "new"
    /\ LET op == request.operation
           call == [NewCall EXCEPT !.op = op, !.request = request,
                                   !.key = cacheKeyOf(request),
                                   !.ttlMs = options.ttlMs,
                                   !.skip = options.bypassCache \/ options.forceRefresh]
       IN
       IF ~valid
       THEN ValidationFails(c, [NewCall EXCEPT !.op = op, !.request = request])
       ELSE IF checksCache(options)
       THEN LET got == cacheGet(cache, stats, cacheConfig, call.key, now)
                looked == [call EXCEPT !.lookups = @ + 1]
            IN  /\ cache' = got.cache
                /\ stats' = got.stats
                /\ IF got.value # Null
                   THEN /\ calls' = [calls EXCEPT ![c] =
                               Returned(looked, got.value, NoRoutesError)]
                        /\ UNCHANGED <<tokens, lastRefill, admissions>>
                   ELSE Admission(c, looked)
       ELSE /\ Admission(c, call)
            /\ UNCHANGED <<cache, stats>>
    /\ UNCHANGED <<now, rlConfig, refillTimer, rlOp, emptiedAt, granted, rsVars, auxVars, cacheAdapter,
                   cacheConfig, timeoutMs>>

\* the call of this kind with the request that the calls of its kind make
Call(c, op, options, valid) == CallFor(c, RequestOf(op), options, valid)

\* a failure that takes the entry of the call's key with it
CaughtDropsEntry(c, error) ==
    LET k == executeCatch(retryConfig, error, calls[c].attempt) IN
    /\ calls' = [calls EXCEPT ![c] =
           IF k.rethrow
           THEN Returned([@ EXCEPT !.attempt = k.attempt], Null, k.value)
           ELSE [@ EXCEPT !.pc = "backoff", !.attempt = k.attempt,
                          !.wake = now + calculateDelay(retryConfig, k.attempt)]]
    /\ cache' = IF k.rethrow THEN cacheDelete(cache, calls[c].key) ELSE cache
    /\ UNCHANGED stats

\* the catch block of execute in call c, then the rejection of the call or
\* the backoff delay
Caught(c, error) ==
    LET k == executeCatch(retryConfig, error, calls[c].attempt) IN
    /\ calls' = [calls EXCEPT ![c] =
           IF k.rethrow
           THEN Returned([@ EXCEPT !.attempt = k.attempt], Null, k.value)
           ELSE [@ EXCEPT !.pc = "backoff", !.attempt = k.attempt,
                          !.wake = now + calculateDelay(retryConfig, k.attempt)]]
    /\ UNCHANGED <<cache, stats>>

\* the transport answers call c's request with res: the response is
\* classified and parsed; a result is cached and returned
TransportResponds(c, res) ==
    /\ calls[c].pc = "sending"
    /\ IF res.status >= 400
       THEN Caught(c, fromHttpResponse(res.status, <<"other">>, TRUE))
       ELSE IF res.body = "invalid"
       THEN Caught(c, validation(<<"other">>, FALSE))
       ELSE IF res.body # "OK"
       THEN Caught(c, fromHttpResponse(400, <<"other", "status", "other">>, TRUE))
       ELSE LET result == [op |-> calls[c].op, by |-> c]
                ttl == IF calls[c].ttlMs # 0 THEN calls[c].ttlMs ELSE DefaultTtlMs
            IN  /\ calls' = [calls EXCEPT ![c] =
                       Returned([@ EXCEPT !.writes = IF cacheAdapter THEN @ + 1 ELSE @],
                                result, NoRoutesError)]
                /\ cache' = IF cacheAdapter
                            THEN cacheSet(cache, cacheConfig, calls[c].key, result, ttl, now)
                            ELSE cache
                /\ UNCHANGED stats
    /\ UNCHANGED <<now, rlVars, rsVars, auxVars, cacheAdapter, cacheConfig, timeoutMs, admissions>>

\* the catch block of executeRouteRequest for an error that is no RoutesError
executeRequestCatch(message) ==
    IF includes(message, "timeout") THEN timeout(timeoutMs) ELSE network(message, TRUE)

\* the transport throws an error with this message
TransportFails(c, message) ==
    /\ calls[c].pc = "sending"
    /\ Caught(c, executeRequestCatch(message))
    /\ UNCHANGED <<now, rlVars, rsVars, auxVars, cacheAdapter, cacheConfig, timeoutMs, admissions>>

\* the timer of sendRequestWithTimeout fires before the transport settles:
\* Error("Request timed out after <n>ms")
TimeoutFires(c) ==
    /\ calls[c].pc = "sending"
    /\ now - calls[c].sentAt >= timeoutMs
    /\ Caught(c, executeRequestCatch(<<"other">>))
    /\ UNCHANGED <<now, rlVars, rsVars, auxVars, cacheAdapter, cacheConfig, timeoutMs, admissions>>

\* a retry that asks the limiter for a token again
BackoffDoneAsksAgain(c) ==
    /\ calls[c].pc = "backoff"
    /\ now >= calls[c].wake
    /\ LET r == acquire(tokens, lastRefill, rlConfig, now, 1) IN
           /\ tokens' = r.tokens
           /\ lastRefill' = r.lastRefill
    /\ admissions' = admissions + 1
    /\ calls' = [calls EXCEPT ![c] =
           IF @.attempt <= retryConfig.maxRetries
           THEN sendRequestWithTimeout([@ EXCEPT !.acquires = @ + 1])
           ELSE Returned(@, Null, NoRoutesError)]
    /\ UNCHANGED <<now, rlConfig, refillTimer, rlOp, emptiedAt, granted, rsVars, auxVars,
                   cacheAdapter, cacheVars, timeoutMs>>

\* the backoff delay of call c is over: the loop test, then fn is called again
BackoffDone(c) ==
    /\ calls[c].pc = "backoff"
    /\ now >= calls[c].wake
    /\ calls' = [calls EXCEPT ![c] =
           IF @.attempt <= retryConfig.maxRetries
           THEN sendRequestWithTimeout(@)
           ELSE Returned(@, Null, NoRoutesError)]
    /\ UNCHANGED <<now, rlVars, rsVars, auxVars, cacheAdapter, cacheVars, timeoutMs, admissions>>

\* the key that invalidateRoute / invalidateDistanceMatrix /
\* invalidateSnapToRoads computes for the request of this kind
invalidateKey(op) ==
    CASE op = "route" -> generateCacheKey("route", RequestOf(op))
      [] op = "distanceMatrix" -> generateDistanceMatrixCacheKey(RequestOf(op))
      [] OTHER -> generateSnapToRoadsCacheKey(RequestOf(op))

\* an invalidation that empties the cache
InvalidateAll(op) ==
    /\ cacheAdapter
    /\ cache' = <<>>
    /\ UNCHANGED <<now, rlVars, rsVars, auxVars, cacheAdapter, stats, cacheConfig,
                   timeoutMs, calls, admissions>>

\* invalidateRoute / invalidateDistanceMatrix / invalidateSnapToRoads (opts)
Invalidate(op) ==
    /\ cacheAdapter
    /\ cache' = cacheDelete(cache, invalidateKey(op))
    /\ UNCHANGED <<now, rlVars, rsVars, auxVars, cacheAdapter, stats, cacheConfig,
                   timeoutMs, calls, admissions>>

ClientTick == TickUpTo(MaxClientTime)

CLNext ==
    \/ \E c \in DOMAIN calls, op \in Ops, options \in CacheOptions, valid \in BOOLEAN :
           Call(c, op, options, valid)
    \/ \E c \in DOMAIN calls, res \in Responses : TransportResponds(c, res)
    \/ \E c \in DOMAIN calls, message \in TransportFailures : TransportFails(c, message)
    \/ \E c \in DOMAIN calls : TimeoutFires(c)
    \/ \E c \in DOMAIN calls : BackoffDone(c)
    \/ \E op \in Ops : Invalidate(op)
    \/ ClientTick
    \/ TimerRefill

SpecClient == CLInit /\ [][CLNext]_vars

----------------------------------------------------------------------------
(* A burst: a client without cache, one call more than the limiter's capacity,
   issued while the clock stays below the refill interval *)

BurstRateLimiterConfigs ==
    [capacity : 1..MaxBurstCapacity, refillRate : {1}, refillIntervalMs : {1, 2}]

\* the operation of the c-th call of the burst
BurstOp(c) ==
    CASE c % 3 = 1 -> "route" [] c % 3 = 2 -> "distanceMatrix" [] OTHER -> "snapToRoads"

\* no cacheOptions
NoCacheOptions == [bypassCache |-> FALSE, forceRefresh |-> FALSE, ttlMs |-> 0]

BurstInit ==
    /\ \E cfg \in BurstRateLimiterConfigs :
           /\ RLConstructed(cfg)
           /\ calls = [c \in 1..(cfg.capacity + 1) |-> NewCall]
    /\ retryConfig \in {cfg \in ClientRetryConfigs : cfg.maxRetries = MaxClientRetries}
    /\ rs = [pc |-> "none"]
    /\ cacheAdapter = FALSE
    /\ cache = <<>>
    /\ stats = [hitCount |-> 0, missCount |-> 0, expiredCount |-> 0]
    /\ cacheConfig = NoCacheConfig
    /\ timeoutMs = 1
    /\ admissions = 0
    /\ AuxIdle

BurstCall == \E c \in DOMAIN calls : Call(c, BurstOp(c), NoCacheOptions, TRUE)

BurstTick == TickUpTo(rlConfig.refillIntervalMs - 1)

BurstNext ==
    \/ BurstCall
    \/ \E c \in DOMAIN calls, res \in Responses : TransportResponds(c, res)
    \/ \E c \in DOMAIN calls, message \in TransportFailures : TransportFails(c, message)
    \/ \E c \in DOMAIN calls : TimeoutFires(c)
    \/ \E c \in DOMAIN calls : BackoffDone(c)
    \/ BurstTick

SpecBurst == BurstInit /\ [][BurstNext]_vars

----------------------------------------------------------------------------
(* Two calls of a client with a cache and room for both in the limiter, each
   with a request of its own *)

LeakRequests ==
    {RouteRequest(origin, <<>>) :
         origin \in {StringLocation(<<"Paris">>), CoordString(1, 1), LatLng(1, 1),
                     LatLng(1, 2), LatLngArray(1, 1)}}
    \cup {DistanceMatrixRequest(<<origin>>) :
              origin \in {StringLocation(<<"Paris">>), LatLng(1, 1), LatLng(1, 2)}}
    \cup {SnapToRoadsRequest(<<LatLng(1, 1), point>>) :
              point \in {LatLng(1, 2), LatLng(2, 1)}}

LeakInit ==
    /\ RLConstructed(TestRateLimiterConfig)
    /\ retryConfig \in {cfg \in ClientRetryConfigs : cfg.maxRetries = 0}
    /\ rs = [pc |-> "none"]
    /\ cacheAdapter = TRUE
    /\ cache = <<>>
    /\ stats = [hitCount |-> 0, missCount |-> 0, expiredCount |-> 0]
    /\ cacheConfig = [maxEntries |-> DefaultMaxEntries, enableStats |-> TRUE,
                      defaultTtlMs |-> DefaultCacheTtlMs]
    /\ timeoutMs = 1
    /\ calls = <<NewCall, NewCall>>
    /\ admissions = 0
    /\ AuxIdle

LeakCall ==
    \E c \in DOMAIN calls, request \in LeakRequests :
        CallFor(c, request, NoCacheOptions, TRUE)

LeakNext ==
    \/ LeakCall
    \/ \E c \in DOMAIN calls, res \in Responses : TransportResponds(c, res)
    \/ ClientTick
    \/ TimerRefill

SpecLeak == LeakInit /\ [][LeakNext]_vars

----------------------------------------------------------------------------
(* The classification of the transport's responses: one call of a client
   without cache and without retries, answered with any of these statuses *)

AllHttpStatuses ==
    {200, 204, 302, 399, 400, 401, 402, 403, 404, 418, 429, 499, 500, 501, 502, 503,
     504, 599}

AllResponses == [status : AllHttpStatuses, body : Bodies]

HttpInit ==
    /\ \E cfg \in ClientRateLimiterConfigs : RLConstructed(cfg)
    /\ retryConfig \in {cfg \in ClientRetryConfigs : cfg.maxRetries = 0}
    /\ rs = [pc |-> "none"]
    /\ cacheAdapter = FALSE
    /\ cache = <<>>
    /\ stats = [hitCount |-> 0, missCount |-> 0, expiredCount |-> 0]
    /\ cacheConfig = NoCacheConfig
    /\ timeoutMs = 1
    /\ calls = <<NewCall>>
    /\ admissions = 0
    /\ AuxIdle

HttpCall == \E c \in DOMAIN calls, op \in Ops : Call(c, op, NoCacheOptions, TRUE)

HttpResponds == \E c \in DOMAIN calls, res \in AllResponses : TransportResponds(c, res)

HttpNext ==
    \/ HttpCall
    \/ HttpResponds
    \/ ClientTick

SpecHttp == HttpInit /\ [][HttpNext]_vars

----------------------------------------------------------------------------
(* Claims about the RoutesClient (SpecClient) *)

\* the entries under this key that have not expired
UnexpiredEntries(key) == {i \in cacheFind(cache, key) : now <= cache[i].expiresAt}

\* C1: when a call of any of the three operations looks its key up (a cache is
\* configured and neither bypassCache nor forceRefresh is set) and the cache
\* holds an unexpired entry under that key, the call returns the cached value
\* in that step, the limiter's tokens are as before, and the call has entered
\* neither acquire nor execute nor the transport
CacheHitIsServedFromCache ==
    [][\A c \in DOMAIN calls :
          (/\ calls[c].pc = "new"
           /\ calls'[c].pc # "new"
           /\ calls'[c].lookups = 1
           /\ UnexpiredEntries(calls'[c].key) # {})
          => /\ calls'[c].pc = "done"
             /\ calls'[c].error = NoRoutesError
             /\ \E i \in UnexpiredEntries(calls'[c].key) :
                    calls'[c].result = cache[i].value
             /\ tokens' = tokens
             /\ lastRefill' = lastRefill
             /\ calls'[c].acquires = 0
             /\ calls'[c].executes = 0
             /\ calls'[c].transports = 0
             /\ calls'[c].writes = 0]_vars

\* a call was served the value another call had cached, at the very tick the
\* entry's expiresAt names
CacheHitWitness ==
    \E c \in DOMAIN calls :
        /\ calls[c].pc = "done"
        /\ calls[c].lookups = 1
        /\ calls[c].acquires = 0
        /\ calls[c].result # Null
        /\ calls[c].result.by # c
        /\ \E i \in cacheFind(cache, calls[c].key) : cache[i].expiresAt = now

\* C2: a call that was refused by acquire(1) has failed at once with status
\* 429 and code RATE_LIMITED: it is finished in the step of the refusal, it
\* asked the limiter once, it never entered execute, never reached the
\* transport, was never retried and wrote nothing into the cache
RefusedCallFailsWith429 ==
    \A c \in DOMAIN calls :
        (calls[c].acquires >= 1 /\ ~calls[c].admitted)
        => /\ calls[c].pc = "done"
           /\ calls[c].result = Null
           /\ calls[c].error.status = 429
           /\ calls[c].error.code = "RATE_LIMITED"
           /\ calls[c].acquires = 1
           /\ calls[c].executes = 0
           /\ calls[c].attempt = 0
           /\ calls[c].transports = 0
           /\ calls[c].writes = 0
           /\ \A i \in 1..Len(cache) : cache[i].value.by # c

\* a call missed the cache and was refused
RefusedAfterMissWitness ==
    \E c \in DOMAIN calls :
        /\ calls[c].lookups = 1
        /\ calls[c].acquires = 1
        /\ ~calls[c].admitted
        /\ calls[c].error.code = "RATE_LIMITED"

\* how many calls up to c have asked the limiter
AskedUpTo(c) == Cardinality({d \in 1..c : calls[d].acquires = 1})

\* C3: with no cache, as long as no refill interval has elapsed since the
\* client was built, the first capacity calls that ask the limiter are
\* admitted and reach the transport, and every call after them is refused
\* with a rate-limited error before execute, before any retry and before the
\* transport (SpecBurst: capacity + 1 calls of the three operations in turn)
BurstAdmitsExactlyCapacity ==
    (~cacheAdapter /\ now < rlConfig.refillIntervalMs)
    => \A c \in DOMAIN calls :
           calls[c].acquires = 1
           => /\ calls[c].admitted <=> AskedUpTo(c) <= rlConfig.capacity
              /\ calls[c].admitted
                 => calls[c].executes = 1 /\ calls[c].transports >= 1
              /\ ~calls[c].admitted
                 => /\ calls[c].error.code = "RATE_LIMITED"
                    /\ calls[c].executes = 0
                    /\ calls[c].attempt = 0
                    /\ calls[c].transports = 0

\* capacity calls were admitted and the next one refused within the interval
BurstRefusedWitness ==
    /\ ~cacheAdapter
    /\ now < rlConfig.refillIntervalMs
    /\ rlConfig.capacity = MaxBurstCapacity
    /\ \E c \in DOMAIN calls :
           /\ calls[c].acquires = 1
           /\ ~calls[c].admitted
           /\ AskedUpTo(c) = rlConfig.capacity + 1
           /\ \A d \in 1..(c - 1) : calls[d].admitted /\ calls[d].transports >= 1

----------------------------------------------------------------------------
(* Claims about the cache in the calls of the RoutesClient (SpecClient) *)

\* the entries of a store, as a set
Stored(entries) == {entries[i] : i \in 1..Len(entries)}

\* call c's remote call succeeds in this step
Succeeds(c) ==
    /\ calls[c].pc = "sending"
    /\ calls'[c].pc = "done"
    /\ calls'[c].result # Null

\* C16: when the remote call of a call succeeds and a cache is configured, the
\* result is stored under the key computed for the lookup, to expire after
\* the caller's ttlMs, or after the cache's configured defaultTtlMs when the
\* caller gave none, and the same result is returned
SuccessIsCachedWithTtl ==
    [][\A c \in DOMAIN calls :
          (Succeeds(c) /\ cacheAdapter)
          => \E i \in cacheFind(cache', calls[c].key) :
                 /\ cache'[i].value = calls'[c].result
                 /\ cache'[i].expiresAt =
                        now + (IF calls[c].ttlMs # 0 THEN calls[c].ttlMs
                                                     ELSE cacheConfig.defaultTtlMs)]_vars

\* C17: a call with bypassCache or forceRefresh does no lookup: its first step
\* leaves the cache and its counters alone, asks acquire once and, admitted,
\* hands a request to the transport, whatever the cache holds; no step of the
\* call changes the counters, and a result it returns is its own remote result
BypassSkipsLookup ==
    [][\A c \in DOMAIN calls :
          /\ (calls[c].pc = "new" /\ calls'[c].pc # "new" /\ calls'[c].skip)
             => /\ cache' = cache
                /\ stats' = stats
                /\ calls'[c].lookups = 0
                /\ calls'[c].acquires = 1
                /\ admissions' = admissions + 1
                /\ IF calls'[c].admitted
                   THEN calls'[c].pc = "sending" /\ calls'[c].transports = 1
                   ELSE calls'[c].pc = "done" /\ calls'[c].error.status = 429
          /\ (calls'[c].skip /\ calls'[c] # calls[c])
             => /\ stats' = stats
                /\ calls'[c].lookups = 0
                /\ calls'[c].result # Null
                   => calls'[c].result.by = c /\ calls'[c].transports >= 1]_vars

\* a call that skips the lookup is at the transport while the cache holds an
\* unexpired entry under its key
BypassWithEntryWitness ==
    \E c \in DOMAIN calls :
        /\ calls[c].skip
        /\ calls[c].pc = "sending"
        /\ UnexpiredEntries(calls[c].key) # {}

\* C18: an invalidation deletes the entry under the key the calls compute for
\* the same request, so that a lookup of it misses, and nothing else: the
\* entries under other keys, the counters and the limiter stay as they were
InvalidateDeletesOnlyItsKey ==
    [][\A op \in Ops :
          Invalidate(op)
          => LET key == cacheKeyOf(RequestOf(op)) IN
             /\ cacheFind(cache', key) = {}
             /\ cacheGet(cache', stats', cacheConfig', key, now').value = Null
             /\ \A i \in 1..Len(cache) : cache[i].key # key => cache[i] \in Stored(cache')
             /\ Stored(cache') \subseteq Stored(cache)
             /\ tokens' = tokens
             /\ lastRefill' = lastRefill
             /\ refillTimer' = refillTimer
             /\ admissions' = admissions]_vars

\* two calls of different operations have both stored their results in a cache
\* that evicts nothing, and only the entry of one of them is left
InvalidatedWitness ==
    \E c, d \in DOMAIN calls :
        /\ calls[c].pc = "done" /\ calls[c].writes = 1
        /\ calls[d].pc = "done" /\ calls[d].writes = 1
        /\ calls[c].op # calls[d].op
        /\ cacheConfig.maxEntries = DefaultMaxEntries
        /\ cacheFind(cache, calls[c].key) = {}
        /\ UnexpiredEntries(calls[d].key) # {}

\* the call has missed the cache and is not finished
InFlightAfterMiss(call) ==
    call.pc \in {"sending", "backoff"} /\ call.lookups = 1

\* C19: two calls for the same key that are in flight after both missed have
\* each taken a token and each handed a request to the transport; each one
\* whose remote call succeeds writes the cache, the entry under the key is
\* then the result of the call that wrote last, and there is never more than
\* one entry under a key
ConcurrentMissesBothWrite ==
    [][/\ \A c, d \in DOMAIN calls :
              (/\ c # d
               /\ calls'[c].key = calls'[d].key
               /\ InFlightAfterMiss(calls'[c])
               /\ InFlightAfterMiss(calls'[d]))
              => /\ calls'[c].acquires = 1 /\ calls'[c].admitted
                 /\ calls'[d].acquires = 1 /\ calls'[d].admitted
                 /\ calls'[c].transports >= 1 /\ calls'[d].transports >= 1
                 /\ admissions' >= 2
       /\ \A c \in DOMAIN calls :
              (Succeeds(c) /\ cacheAdapter)
              => /\ calls'[c].writes = calls[c].writes + 1
                 /\ \A i \in cacheFind(cache', calls[c].key) :
                        cache'[i].value = [op |-> calls[c].op, by |-> c]
                 /\ cacheFind(cache', calls[c].key) # {}
       /\ \A i, j \in 1..Len(cache') : cache'[i].key = cache'[j].key => i = j]_vars

\* both calls missed, both wrote, and the entry left is that of the call that
\* started first: the second call started and finished while the first was in
\* flight
ConcurrentWritesWitness ==
    /\ Len(calls) >= 2
    /\ calls[1].key = calls[2].key
    /\ \A c \in {1, 2} :
           /\ calls[c].pc = "done"
           /\ calls[c].lookups = 1
           /\ calls[c].admitted
           /\ calls[c].writes = 1
    /\ \E i \in cacheFind(cache, calls[1].key) : cache[i].value.by = 1

\* C20: a call whose options fail validation fails with the validation error
\* in its first step, which does no lookup, asks for no token, enters neither
\* the retry loop nor the transport, and leaves the cache and the limiter as
\* they were
InvalidOptionsFailFirst ==
    [][\A c \in DOMAIN calls :
          (/\ calls[c].pc = "new"
           /\ calls'[c].pc # "new"
           /\ calls'[c].error = ValidationError)
          => /\ calls'[c].pc = "done"
             /\ calls'[c].result = Null
             /\ calls'[c].lookups = 0
             /\ calls'[c].acquires = 0
             /\ calls'[c].executes = 0
             /\ calls'[c].transports = 0
             /\ calls'[c].writes = 0
             /\ cache' = cache
             /\ stats' = stats
             /\ tokens' = tokens
             /\ lastRefill' = lastRefill
             /\ admissions' = admissions]_vars

\* a call has failed its validation, with the bucket full and a cached entry
\* in place
InvalidOptionsWitness ==
    \E c \in DOMAIN calls :
        /\ calls[c].error = ValidationError
        /\ tokens = rlConfig.capacity
        /\ cache # <<>>

----------------------------------------------------------------------------
(* Claims about the errors of the calls (SpecClient) *)

\* the codes of the upstream errors
UpstreamCodes ==
    {"INVALID_REQUEST", "UNAUTHORIZED", "FORBIDDEN", "NOT_FOUND", "RATE_LIMITED",
     "SERVER_ERROR", "SERVICE_UNAVAILABLE", "HTTP_ERROR"}

\* the error is of one of the kinds of the specification, with its status
\* and its code
SpecifiedError(error) ==
    CASE error.code = "VALIDATION_ERROR" -> error.status = 400
      [] error.code = "NETWORK_ERROR" -> error.status = 0
      [] error.code = "TIMEOUT_ERROR" -> error.status = 408
      [] error.code \in UpstreamCodes -> error.status >= 400
      [] OTHER -> FALSE

\* C21: a call that has ended has either a result and no error, or no result
\* and an error of one of the specified kinds, which has a status and a code
CallEndsWithResultOrSpecifiedError ==
    \A c \in DOMAIN calls :
        calls[c].pc = "done"
        => IF calls[c].result # Null
           THEN calls[c].error = NoRoutesError
           ELSE SpecifiedError(calls[c].error)

\* C22: when the timer of an attempt fires before the transport has settled,
\* the attempt fails as it does on a TimeoutError with status 408 that carries
\* timeoutMs
TimerFirstIsTimeoutError ==
    [][\A c \in DOMAIN calls : TimeoutFires(c) => Caught(c, timeout(timeoutMs))]_vars

\* the code the specification gives to an upstream status
UpstreamCode(status) ==
    CASE status = 400 -> "INVALID_REQUEST"
      [] status = 401 -> "UNAUTHORIZED"
      [] status = 403 -> "FORBIDDEN"
      [] status = 404 -> "NOT_FOUND"
      [] status = 429 -> "RATE_LIMITED"
      [] status = 500 -> "SERVER_ERROR"
      [] status = 502 -> "SERVICE_UNAVAILABLE"
      [] status = 503 -> "SERVICE_UNAVAILABLE"
      [] status = 504 -> "SERVICE_UNAVAILABLE"
      [] OTHER -> "HTTP_ERROR"

\* C23: a response with status >= 400 fails the call with an error that has
\* the status of the response and the code that the status determines,
\* whatever the body; a response with a lower status gives the result or the
\* error that its body alone determines
HttpStatusDeterminesUpstreamError ==
    [][\A c \in DOMAIN calls, res \in AllResponses :
          TransportResponds(c, res)
          => IF res.status >= 400
             THEN /\ calls'[c].pc = "done"
                  /\ calls'[c].result = Null
                  /\ calls'[c].error.status = res.status
                  /\ calls'[c].error.code = UpstreamCode(res.status)
             ELSE /\ calls'[c].pc = "done"
                  /\ (calls'[c].result # Null) = (res.body = "OK")
                  /\ \A other \in AllResponses :
                         (other.status < 400 /\ other.body = res.body)
                         => TransportResponds(c, other)]_vars

\* a call has failed on a response with status 502
UpstreamErrorWitness ==
    \E c \in DOMAIN calls :
        /\ calls[c].pc = "done"
        /\ calls[c].transports = 1
        /\ calls[c].error.status = 502
        /\ calls[c].error.code = "SERVICE_UNAVAILABLE"

\* C33: with retryOnNetworkError set, when the transport of an admitted call
\* fails at the network level (it throws, or the timer of the call fires
\* first) while retries remain, the call goes on to the backoff delay and to
\* another transport attempt
NetworkFailureIsRetried ==
    [][\A c \in DOMAIN calls :
          (/\ \/ TimeoutFires(c)
              \/ \E message \in TransportFailures : TransportFails(c, message)
           /\ calls[c].admitted
           /\ retryConfig.retryOnNetworkError
           /\ calls[c].attempt < retryConfig.maxRetries)
          => calls'[c].pc = "backoff"]_vars

----------------------------------------------------------------------------
(* Claims about the InMemoryCacheAdapter (SpecCache) *)

\* the counters have moved by these amounts in this step
Counted(hits, misses, expired) ==
    stats' = [hitCount |-> stats.hitCount + hits,
              missCount |-> stats.missCount + misses,
              expiredCount |-> stats.expiredCount + expired]

\* what a get step does, n being what it adds to a counter it moves: no entry,
\* a miss and absent; an entry with now > expiresAt, the entry removed, an
\* expiry and a miss, and absent; otherwise a hit, the stored value, and the
\* entry left in place
GetStep(n) ==
    LET here == cacheFind(cache, cacheOp'.key) IN
    IF here = {}
    THEN cacheOp'.value = Null /\ cache' = cache /\ Counted(0, n, 0)
    ELSE LET entry == cache[CHOOSE i \in here : TRUE] IN
         IF now > entry.expiresAt
         THEN /\ cacheOp'.value = Null
              /\ Stored(cache') = Stored(cache) \ {entry}
              /\ Len(cache') = Len(cache) - 1
              /\ Counted(0, n, n)
         ELSE /\ cacheOp'.value = entry.value
              /\ cache' = cache
              /\ Counted(n, 0, 0)

\* C13 (as stated): every get counts one miss when there is no entry, one
\* expiry and one miss when the entry has expired (and removes it), one hit
\* otherwise (and returns the stored value, leaving the entry)
GetCounts ==
    [][cacheOp'.op = "get" => GetStep(1)]_vars

\* C13 (amended): get does so when enableStats is true; when it is false get
\* returns and removes the same but moves no counter
GetCountsWhenStatsEnabled ==
    [][cacheOp'.op = "get" => GetStep(IF cacheConfig.enableStats THEN 1 ELSE 0)]_vars

\* a get has just found its entry expired, after a hit on it
GetExpiredWitness ==
    /\ cacheOp.op = "get"
    /\ cacheOp.value = Null
    /\ cacheConfig.enableStats
    /\ cacheFind(cache, cacheOp.key) = {}
    /\ stats = [hitCount |-> 1, missCount |-> 1, expiredCount |-> 1]

\* the entry evictOldestEntry is to pick: the earliest createdAt, the first
\* inserted among equals
Oldest(entries, i) ==
    \A j \in 1..Len(entries) :
        \/ entries[i].createdAt < entries[j].createdAt
        \/ entries[i].createdAt = entries[j].createdAt /\ i <= j

\* C14: a set of a key the store does not hold, made when the store holds
\* maxEntries entries, evicts exactly one entry, the oldest; the others and
\* the new key stay
InsertBeyondMaxEvictsOldest ==
    [][(/\ cacheOp'.op = "set"
        /\ Len(cache) = cacheConfig.maxEntries
        /\ cacheFind(cache, cacheOp'.key) = {})
       => \E i \in 1..Len(cache) :
              /\ Oldest(cache, i)
              /\ cacheFind(cache', cache[i].key) = {}
              /\ \A j \in (1..Len(cache)) \ {i} : cache[j] \in Stored(cache')
              /\ cacheFind(cache', cacheOp'.key) # {}
              /\ Len(cache') = cacheConfig.maxEntries]_vars

\* C15: between operations the store never holds more than maxEntries entries
SizeWithinMaxEntries ==
    Len(cache) <= cacheConfig.maxEntries

\* what a has step does, n being what it adds to expiredCount for an entry it
\* removes: it reports what get would find, removes what get would remove,
\* and leaves hitCount and missCount alone
HasStep(n) ==
    LET key == cacheOp'.key
        got == cacheGet(cache, stats, cacheConfig, key, now)
        here == cacheFind(cache, key)
        expired == {i \in here : now > cache[i].expiresAt}
    IN  /\ cacheOp'.found = (got.value # Null)
        /\ cacheOp'.found = (here # {} /\ expired = {})
        /\ cache' = got.cache
        /\ Counted(0, 0, IF expired # {} THEN n ELSE 0)

\* C26 (as stated): has removes an expired entry, counts it once in
\* expiredCount and reports false; it reports true exactly when get would
\* return the value; it never changes hitCount or missCount
HasChecksExpiry ==
    [][cacheOp'.op = "has" => HasStep(1)]_vars

\* C26 (amended): has does so, counting the expired entry when enableStats is
\* true and changing no counter when it is false
HasChecksExpiryWhenStatsEnabled ==
    [][cacheOp'.op = "has" => HasStep(IF cacheConfig.enableStats THEN 1 ELSE 0)]_vars

\* a has has just removed an expired entry: nothing else has counted an
\* expiry without a miss before the first sweep
HasExpiredWitness ==
    /\ cacheOp.op = "has"
    /\ ~cacheOp.found
    /\ cacheConfig.enableStats
    /\ now < CleanupIntervalMs
    /\ cacheFind(cache, cacheOp.key) = {}
    /\ stats = [hitCount |-> 0, missCount |-> 0, expiredCount |-> 1]

\* C27: clear empties the store and, when stats are enabled, sets the three
\* counters to zero; no other operation decreases a counter
ClearAloneResetsCounters ==
    [][IF cacheOp'.op = "clear"
       THEN /\ cache' = <<>>
            /\ stats' = IF cacheConfig.enableStats
                        THEN [hitCount |-> 0, missCount |-> 0, expiredCount |-> 0]
                        ELSE stats
       ELSE /\ stats'.hitCount >= stats.hitCount
            /\ stats'.missCount >= stats.missCount
            /\ stats'.expiredCount >= stats.expiredCount]_vars

\* a clear has just found a counter above zero, with stats enabled
ClearedWitness ==
    /\ cacheOp.op = "clear"
    /\ cacheOp.found
    /\ cacheConfig.enableStats
    /\ cache = <<>>
    /\ stats = [hitCount |-> 0, missCount |-> 0, expiredCount |-> 0]

\* the entries a step deletes
Deleted == Stored(cache) \ Stored(cache')

\* a step of the sweep or of a read deletes only entries with now > expiresAt,
\* and the sweep deletes all of them
DeletesExpired ==
    /\ Stored(cache') \subseteq Stored(cache)
    /\ \A entry \in Deleted : now > entry.expiresAt
    /\ cacheOp'.op = "cleanup" =>
           \A entry \in Stored(cache') : ~(now > entry.expiresAt)

\* C32 as stated: the sweep deletes every entry with now > expiresAt and no
\* other, and the sweep, get and has add to expiredCount exactly one per entry
\* they delete, so that each expired entry is deleted and counted once
ExpiredEntriesCountedOnce ==
    [][cacheOp'.op \in {"cleanup", "get", "has"} =>
          /\ DeletesExpired
          /\ stats'.expiredCount = stats.expiredCount + Cardinality(Deleted)]_vars

\* C32 with the counters of a store whose stats are disabled left out: there
\* expiredCount stays as it is
ExpiredEntriesCountedOnceWhenStatsEnabled ==
    [][cacheOp'.op \in {"cleanup", "get", "has"} =>
          /\ DeletesExpired
          /\ stats'.expiredCount =
                 IF cacheConfig.enableStats
                 THEN stats.expiredCount + Cardinality(Deleted)
                 ELSE stats.expiredCount]_vars

\* the sweep has deleted an entry that get never looked for, has counted it,
\* and has left an entry that is not expired
SweptUnreadWitness ==
    /\ cacheOp.op = "cleanup" /\ cacheOp.found
    /\ cacheConfig.enableStats
    /\ stats.expiredCount >= 1
    /\ stats.hitCount = 0 /\ stats.missCount = 0
    /\ cache # <<>>

\* C39: the host never holds more than one scheduled refill timer of the
\* limiter, nor more than one scheduled sweep timer of the adapter
AtMostOneTimerEach ==
    /\ Cardinality(LiveOf(intervals, "refill")) <= 1
    /\ Cardinality(LiveOf(intervals, "sweep")) <= 1

\* the adapter has had its timer replaced by updateConfig, then the limiter twice,
\* and each has one timer scheduled, the one its field holds
TimersReplacedWitness ==
    /\ intervals.made = MaxTimers
    /\ rlOp.op = "updateConfig"
    /\ cacheOp.op = "updateConfig"
    /\ intervals.refill = MaxTimers
    /\ intervals.sweep < MaxTimers - 1
    /\ intervals.sweep > 2
    /\ LiveOf(intervals, "refill") = {[owner |-> "refill", id |-> intervals.refill]}
    /\ LiveOf(intervals, "sweep") = {[owner |-> "sweep", id |-> intervals.sweep]}

StoredKeys(entries) == {entries[i].key : i \in 1..Len(entries)}

EntriesExpireAfterCreation ==
    \A i \in 1..Len(cache) : cache[i].expiresAt > cache[i].createdAt

----------------------------------------------------------------------------
(* Claims about the cache keys (SpecKeys) *)

\* what a location denotes: a point, whatever its representation, or an address
denotes(location) ==
    IF location.kind # "string"
    THEN [point |-> TRUE, text |-> <<>>, lat |-> location.lat, lng |-> location.lng]
    ELSE IF \E x \in Coords, y \in Coords : location = CoordString(x, y)
    THEN LET c == CHOOSE c \in Coords \X Coords : location = CoordString(c[1], c[2])
         IN  [point |-> TRUE, text |-> <<>>, lat |-> c[1], lng |-> c[2]]
    ELSE [point |-> FALSE, text |-> location.text, lat |-> 0, lng |-> 0]

\* two values of a field mean the same
SameValue(field, v, w) ==
    IF field \in {"origin", "destination"} THEN denotes(v) = denotes(w)
    ELSE IF field \in {"waypoints", "origins", "destinations", "path"}
    THEN /\ Len(v) = Len(w)
         /\ \A i \in 1..Len(v) : denotes(v[i]) = denotes(w[i])
    ELSE v = w

\* two requests are logically the same request
Equivalent(a, b) ==
    /\ a.operation = b.operation
    /\ \A field \in DOMAIN a : SameValue(field, a[field], b[field])

\* C11: two logically equivalent requests of the same operation, differing at
\* most in the representation of a location, have the same cache key
EquivalentRequestsShareKey ==
    (keyOp.done /\ Equivalent(keyOp.a, keyOp.b)) => keyOp.keyA = keyOp.keyB

\* C12: two requests that differ in the operation or in what a field means
\* have different cache keys
DifferentRequestsDifferInKey ==
    (keyOp.done /\ ~Equivalent(keyOp.a, keyOp.b)) => keyOp.keyA # keyOp.keyB

----------------------------------------------------------------------------
(* Claims about the cache keys in the calls (SpecLeak) *)

\* the call was served from the cache
ServedFromCache(call) ==
    call.pc = "done" /\ call.lookups = 1 /\ call.acquires = 0 /\ call.result # Null

\* C34: the value a call is served from the cache is the result that the
\* transport produced for a call with a request of the same operation and the
\* same origin(s), destination(s), path and options
CacheHitIsForTheSameRequest ==
    \A c \in DOMAIN calls :
        ServedFromCache(calls[c]) =>
            Equivalent(calls[calls[c].result.by].request, calls[c].request)

----------------------------------------------------------------------------
(* Claims about the RateLimiter (SpecRL) *)

\* C4: in every reachable state the token count is within [0, capacity], the
\* capacity being the one currently configured.
TokensWithinCapacity == 0 <= tokens /\ tokens <= rlConfig.capacity

\* the token count a refill check at time now leaves, as the refill algorithm
\* is specified
RefilledTokens ==
    LET elapsed == now - lastRefill IN
    IF elapsed >= rlConfig.refillIntervalMs
    THEN Min(rlConfig.capacity,
             tokens + (elapsed \div rlConfig.refillIntervalMs) * rlConfig.refillRate)
    ELSE tokens

\* C5: acquire(n) refills first; with at least n tokens after the refill it
\* returns true and takes exactly n, otherwise it returns false and leaves
\* the refilled count as it is.
AcquireRefillsThenConsumes ==
    [][rlOp'.op = "acquire" =>
         IF RefilledTokens >= rlOp'.n
         THEN rlOp'.ok /\ tokens' = RefilledTokens - rlOp'.n
         ELSE ~rlOp'.ok /\ tokens' = RefilledTokens]_vars

\* an acquire was refused although tokens were left, and took none
AcquireRefusedWitness ==
    rlOp.op = "acquire" /\ ~rlOp.ok /\ tokens > 0 /\ tokens < rlOp.n

\* C6: once the bucket has been emptied, acquire(1) at the same instant
\* returns false, and acquire(1) a refill interval or more later returns true.
EmptyThenRefilled ==
    (rlOp.op = "acquire" /\ rlOp.n = 1 /\ rlOp.since >= 0) =>
        /\ rlOp.since = 0 => ~rlOp.ok
        /\ rlOp.since >= rlConfig.refillIntervalMs => rlOp.ok

\* acquire(1) succeeded exactly one refill interval after the bucket was emptied
RefilledWitness ==
    /\ rlOp.op = "acquire" /\ rlOp.n = 1 /\ rlOp.ok
    /\ rlOp.since = rlConfig.refillIntervalMs
    /\ rlConfig.refillIntervalMs > 1

\* the token count a refill computation at this time leaves
Refilled == refillTokens(tokens, lastRefill, rlConfig, now).tokens

\* a step of the waitForTokens call
WaiterSteps == waiter' # waiter

\* C24: every step of a waitForTokens call comes a poll delay after the poll
\* before it; the call returns true exactly in a step whose acquire(n) took
\* the n tokens, returns false in a step at which timeoutMs has elapsed and
\* which takes nothing, and no other step of the call takes a token; and a
\* call that is waiting returns in the end
WaitForTokensPollsAndEnds ==
    /\ [][WaiterSteps
          => /\ waiter.pc = "delay" => now >= waiter.wake
             /\ CASE waiter'.result = "true" ->
                         /\ Refilled >= waiter'.n
                         /\ tokens' = Refilled - waiter'.n
                         /\ now - waiter'.startTime < waiter'.timeoutMs
                         /\ waiter'.polls >= 1
                  [] waiter'.result = "false" ->
                         /\ tokens' = tokens
                         /\ now - waiter'.startTime >= waiter'.timeoutMs
                         /\ waiter'.pc = "done"
                  [] OTHER ->
                         /\ Refilled < waiter'.n
                         /\ tokens' = Refilled
                         /\ waiter'.pc = "delay"
                         /\ waiter'.wake = now + PollDelay]_vars
    /\ (waiter.pc = "delay") ~> (waiter.pc = "done")

\* a call has returned true at its second poll or later
WaitedForTokensWitness ==
    /\ waiter.pc = "done"
    /\ waiter.result = "true"
    /\ waiter.polls >= 2

\* C25: once the limiter is destroyed (its refill timer is cleared) no refill
\* tick is scheduled in any later state
DestroyedLimiterStaysWithoutTimer ==
    [][refillTimer = NoTimer => refillTimer' = NoTimer]_vars

RefillCheckCreditsWholeIntervals ==
    [][rlOp'.op \in {"getTokenCount", "timer"} =>
          LET elapsed == now - lastRefill
              credit == (elapsed \div rlConfig.refillIntervalMs) * rlConfig.refillRate
          IN  IF elapsed < rlConfig.refillIntervalMs
              THEN tokens' = tokens /\ lastRefill' = lastRefill
              ELSE /\ tokens' = IF tokens + credit <= rlConfig.capacity
                                THEN tokens + credit ELSE rlConfig.capacity
                   /\ lastRefill' = now]_vars

\* the refill check of getTokenCount has credited tokens after one interval
\* or more and a part of the next, and the refill clock is at now
RemainderDiscardedWitness ==
    /\ rlOp.op = "getTokenCount"
    /\ rlOp.n > rlConfig.refillIntervalMs
    /\ rlOp.n % rlConfig.refillIntervalMs # 0
    /\ lastRefill = now
    /\ tokens > 0

----------------------------------------------------------------------------
(* Claims about the RateLimiter that is never reset nor reconfigured
   (SpecGrant) *)

\* C37: the tokens granted by acquire up to now, the limiter having been
\* constructed at time 0, are at most
\* capacity + floor(now / refillIntervalMs) * refillRate
GrantedWithinCredit ==
    granted <= rlConfig.capacity
                   + (now \div rlConfig.refillIntervalMs) * rlConfig.refillRate

\* all the tokens of the bucket and of the refills of two intervals or more
\* have been granted, the last of them by an acquire that has just returned
AllCreditGrantedWitness ==
    /\ now >= 2 * rlConfig.refillIntervalMs
    /\ granted = rlConfig.capacity
                     + (now \div rlConfig.refillIntervalMs) * rlConfig.refillRate
    /\ rlOp.op = "acquire" /\ rlOp.ok

----------------------------------------------------------------------------
(* Claims about the admitted calls of the RoutesClient (SpecClient) *)

\* C35: a call asks the limiter once; the step in which it asks takes exactly
\* one token when it is admitted and none when it is refused, and no later
\* step of the call (transport result, failure, timeout, retry) asks again or
\* changes the token count
AdmittedCallTakesOneToken ==
    [][\A c \in DOMAIN calls :
          /\ calls'[c].acquires <= 1
          /\ calls'[c].transports >= 1 => calls'[c].admitted
          /\ (calls[c].acquires = 0 /\ calls'[c].acquires = 1) =>
                 /\ tokens' = IF calls'[c].admitted THEN Refilled - 1 ELSE Refilled
                 /\ admissions' = admissions + 1
          /\ (calls[c].acquires = 1 /\ calls'[c] # calls[c]) =>
                 /\ calls'[c].acquires = 1
                 /\ tokens' = tokens
                 /\ admissions' = admissions]_vars

\* an admitted call has failed after maxRetries + 1 >= 2 transport attempts,
\* having asked the limiter once, and the only token is still taken
RetriedCallTookOneTokenWitness ==
    \E c \in DOMAIN calls :
        /\ calls[c].pc = "done" /\ calls[c].error # NoRoutesError
        /\ calls[c].admitted /\ calls[c].acquires = 1
        /\ calls[c].transports = retryConfig.maxRetries + 1
        /\ calls[c].transports >= 2
        /\ rlConfig.capacity = 1 /\ tokens = 0

\* the error that executeRouteRequest throws for a response that is no result
FailureOf(res) ==
    IF res.status >= 400 THEN fromHttpResponse(res.status, <<"other">>, TRUE)
    ELSE IF res.body = "invalid" THEN validation(<<"other">>, FALSE)
    ELSE fromHttpResponse(400, <<"other", "status", "other">>, TRUE)

\* C36: the step in which an admitted call fails for good leaves the cache and
\* its counters exactly as they were, and the call throws the error of its
\* last transport attempt as it is; no other step of an admitted call that
\* has not succeeded changes the cache either
FailedCallLeavesCache ==
    [][\A c \in DOMAIN calls :
          /\ (calls[c].admitted /\ calls'[c] # calls[c] /\ calls'[c].result = Null)
                 => cache' = cache /\ stats' = stats
          /\ (calls[c].admitted /\ calls[c].pc # "done" /\ calls'[c].pc = "done"
                  /\ calls'[c].result = Null)
                 => \/ \E res \in Responses :
                           TransportResponds(c, res) /\ calls'[c].error = FailureOf(res)
                    \/ \E message \in TransportFailures :
                           /\ TransportFails(c, message)
                           /\ calls'[c].error = executeRequestCatch(message)
                    \/ /\ TimeoutFires(c)
                       /\ calls'[c].error = executeRequestCatch(<<"other">>)]_vars

\* a call made with bypassCache or forceRefresh has failed after admission
\* while the cache holds, unexpired, the value an earlier call stored under
\* the same key
FailedRefreshKeepsEntryWitness ==
    \E c \in DOMAIN calls :
        /\ calls[c].pc = "done" /\ calls[c].error # NoRoutesError
        /\ calls[c].admitted /\ calls[c].skip /\ calls[c].transports >= 1
        /\ \E i \in UnexpiredEntries(calls[c].key) :
               cache[i].value.by # c /\ cache[i].value.op = calls[c].op

----------------------------------------------------------------------------
(* Claims about RetryStrategy (SpecRetry) *)

Finished == rs.pc \in {"returned", "thrown"}

\* C7: N <= maxRetries retryable failures followed by a success: execute
\* calls the operation N + 1 times, one call at a time, and returns.
RetriesUntilSuccess ==
    /\ rs.inFlight <= 1
    /\ (Finished /\ rs.allRetryable /\ rs.failures <= retryConfig.maxRetries) =>
           rs.pc = "returned" /\ rs.invocations = rs.failures + 1

\* execute returned after maxRetries retryable failures
RetriedToSuccessWitness ==
    /\ rs.pc = "returned" /\ rs.failures = retryConfig.maxRetries
    /\ rs.failures >= 2

\* C8: with a retryable failure on every attempt execute stops after exactly
\* maxRetries + 1 calls and throws the very error of the last call; it never
\* makes more than maxRetries + 1 calls.
ExhaustedRethrowsLast ==
    /\ rs.invocations <= retryConfig.maxRetries + 1
    /\ (rs.pc = "thrown" /\ rs.allRetryable) =>
           /\ rs.invocations = retryConfig.maxRetries + 1
           /\ rs.thrown = rs.caught
           /\ rs.thrown.id = rs.invocations

\* the retries were exhausted by retryable failures
ExhaustedWitness ==
    /\ rs.pc = "thrown" /\ rs.allRetryable
    /\ retryConfig.maxRetries >= 1
    /\ rs.sleeps = retryConfig.maxRetries

\* C9: a non-retryable failure is rethrown unchanged at once, with no sleep
\* and no further call, whatever the attempt.
NonRetryableRethrownAtOnce ==
    (rs.caught # NoError /\ ~Retryable(retryConfig, rs.caught)) =>
        /\ rs.pc = "thrown"
        /\ rs.thrown = rs.caught
        /\ rs.thrown.id = rs.invocations
        /\ rs.invocations = rs.failures
        /\ rs.sleeps = rs.failures - 1

\* a non-retryable failure on a later attempt, with retries remaining
NonRetryableLaterWitness ==
    /\ rs.pc = "thrown" /\ ~Retryable(retryConfig, rs.caught)
    /\ rs.attempt >= 2 /\ rs.attempt <= retryConfig.maxRetries

\* the HTTP status code an error carries: in its message or as its status
CarriedStatus(error) == extractStatusCode(error)

\* C10: while retries remain, a failure is retried if and only if it is a
\* recognised network failure and retryOnNetworkError is set, or it carries
\* an HTTP status code that is in retryableStatusCodes.
RetryableIffNetworkOrStatus ==
    (rs.caught # NoError /\ rs.attempt <= retryConfig.maxRetries) =>
        (rs.pc = "sleeping" <=>
            \/ retryConfig.retryOnNetworkError /\ isNetworkError(rs.caught)
            \/ CarriedStatus(rs.caught) \in retryConfig.retryableStatusCodes)

----------------------------------------------------------------------------
(* Claims about the backoff delays of RetryStrategy (SpecDelay) *)

\* min(baseMs * factor^(k-1), maxDelayMs), times den^scale
MinBackoffScaled(cfg, k, scale) ==
    LET b == backoff(cfg, k)
        scaled == b.num * cfg.factor.den ^ (scale - (k - 1))
        cap == cfg.maxDelayMs * cfg.factor.den ^ scale
    IN  IF cfg.maxDelayMs # 0 /\ scaled > cap THEN cap ELSE scaled

RECURSIVE SumMinBackoffScaled(_, _, _)
SumMinBackoffScaled(cfg, n, scale) ==
    IF n = 0 THEN 0
    ELSE MinBackoffScaled(cfg, n, scale) + SumMinBackoffScaled(cfg, n - 1, scale)

\* C29: the sleep before retry k is at least baseMs * factor^(k-1) and at most
\* 1.1 times that value, except that it is maxDelayMs when that is set and the
\* value is above it; the sleeps of a call that has made N retries add up to
\* at least the sum over k = 1..N of min(baseMs * factor^(k-1), maxDelayMs)
SleepIsBackoffPlusJitter ==
    rs.pc = "sleeping" =>
        LET b == backoff(retryConfig, rs.attempt)
            max == retryConfig.maxDelayMs
            scale == MaxDelayRetries
        IN  /\ IF max # 0 /\ b.num > max * b.den
               THEN rs.delay = max
               ELSE /\ rs.delay * b.den >= b.num
                    /\ 10 * rs.delay * b.den <= 11 * b.num
                    /\ max # 0 => rs.delay <= max
            /\ rs.waited * retryConfig.factor.den ^ scale
                   >= SumMinBackoffScaled(retryConfig, rs.attempt, scale)

====
